---- MODULE Spec2Model ----
(***************************************************************************)
(* Session control loop of "Session 10/agent/agent_loop3.py"              *)
(* (AgentLoop.run and the methods it calls), as a state machine.           *)
(*                                                                         *)
(* One behaviour is one call of AgentLoop.run.  Every collaborator call    *)
(* (memory search, perception, decision, executor) answers with a value    *)
(* drawn from a small set.  Texts are sequences of characters, optional    *)
(* values are sequences of length 0 (None) or 1.                           *)
(*                                                                         *)
(* Further state machines, each on variables of its own, follow the        *)
(* properties of the session loop: the iteration loop of "Session 6/main.py" *)
(* (SpecMain), Action.act of "Session 6/action.py" (SpecAct), MemoryStore  *)
(* (SpecMemoryOneCaller, SpecMemory) and EmbeddingStore (SpecStore) of     *)
(* "Session 7/agentic_web_memory_extension", and the retry decision of     *)
(* "Session9/heuristics.py" (SpecRetry).                                   *)
(***************************************************************************)
EXTENDS Integers, Sequences, FiniteSets, TLC

VARIABLES pc,              \* where run is: the call it makes next
          session,         \* the AgentSession of this run
          session_memory,  \* the failure-memory window
          memory_results,  \* the answer of memory search
          step,            \* the loop variable: the plan version whose step it is, 0 for None
          calls,           \* how often each collaborator or method was called
          lastPerception,  \* the input of the latest perception call
          lastDecision,    \* the input of the latest decision call
          completedWith,   \* the arguments of the latest mark_complete call
          runs,            \* two interleaved invocations of run: each one's locals
          windows,         \* two interleaved invocations of run: the failure-memory windows
          main_pc,         \* Session 6 main: where it is
          iteration,       \* Session 6 main: the global iteration counter
          last_response,   \* Session 6 main: the global last_response
          iteration_response, \* Session 6 main: the global list of iteration reports
          response_text,   \* Session 6 main: the text of the latest generation
          decided,         \* Session 6 main: the latest answer of get_decision
          tally,           \* Session 6 main: calls made by this call of main and how its loop ended
          act_pc,          \* Session 6 Action.act: where one call is
          act_call,        \* Session 6 Action.act: func_name and params of the call
          arguments,       \* Session 6 Action.act: the names bound in arguments
          act_outcome,     \* Session 6 Action.act: what the tool did and what act returned
          memory_file,     \* Session 7 MemoryStore: the content of user_memory.json
          requests,        \* Session 7 MemoryStore: the calls in progress, one per request thread
          page_log,        \* Session 7 MemoryStore: per URL, the summary of the latest add_page that has returned
          index,           \* Session 7 EmbeddingStore: self.index
          metadata,        \* Session 7 EmbeddingStore: self.metadata
          index_file,      \* Session 7 EmbeddingStore: embeddings.index
          meta_file,       \* Session 7 EmbeddingStore: embeddings_meta.json
          added,           \* Session 7 EmbeddingStore: the add calls made
          retry_pc,        \* Session 9 retry loop: where it is
          config,          \* Session 9 HeuristicEngine: self.config
          attempt,         \* Session 9 retry loop: the attempt number passed next
          timeout_result,  \* Session 9 retry loop: the latest HeuristicResult
          retried          \* Session 9 retry loop: retries made and time slept

runVars == <<pc, session, session_memory, memory_results, step,
             calls, lastPerception, lastDecision, completedWith>>
pairVars == <<runs, windows>>
mainVars == <<main_pc, iteration, last_response, iteration_response,
              response_text, decided, tally>>
actVars == <<act_pc, act_call, arguments, act_outcome>>
memoryVars == <<memory_file, requests, page_log>>
storeVars == <<index, metadata, index_file, meta_file, added>>
retryVars == <<retry_pc, config, attempt, timeout_result, retried>>
vars == <<runVars, pairVars, mainVars, actVars, memoryVars, storeVars, retryVars>>

\* what one part of the program leaves alone
outsideRun == <<pairVars, mainVars, actVars, memoryVars, storeVars, retryVars>>
outsidePair == <<runVars, mainVars, actVars, memoryVars, storeVars, retryVars>>
outsideMain == <<runVars, pairVars, actVars, memoryVars, storeVars, retryVars>>
outsideAct == <<runVars, pairVars, mainVars, memoryVars, storeVars, retryVars>>
outsideMemory == <<runVars, pairVars, mainVars, actVars, storeVars, retryVars>>
outsideStore == <<runVars, pairVars, mainVars, actVars, memoryVars, retryVars>>
outsideRetry == <<runVars, pairVars, mainVars, actVars, memoryVars, storeVars>>

----------------------------------------------------------------------------
(* Bounds of the exploration *)

\* decision calls (= plan versions) explored in one run
MaxPlanVersions == 4
\* plan versions up to which collaborators answer from the wide input sets
WideVersions == 1

(* Program constants *)
GLOBAL_PREVIOUS_FAILURE_STEPS == 3
SummaryLimit == 300
max_iterations == 10
DefaultMaxRetryAttempts == 3

None == <<>>
Some(x) == <<x>>

Min(a, b) == IF a < b THEN a ELSE b

----------------------------------------------------------------------------
(* Texts *)

Query == <<"q">>
ToolFailedText == <<"T", "o", "o", "l", " ", "F", "a", "i", "l", "e", "d">>
ToolFailedRequirement == "Tool failed"
ConclusionText == <<"f", "i", "n">>

\* s[:n]
Prefix(s, n) == SubSeq(s, 1, Min(n, Len(s)))

\* str(executor_response): the rendering of the response dict
PyStr(resp) ==
    IF resp.has_result
    THEN <<"{", "'result'", ":", " ", "'">> \o resp.result \o <<"'", "}">>
    ELSE <<"{", "}">>

----------------------------------------------------------------------------
(* Collaborator answers *)

MemoryResults ==
    { <<>>,
      << [file |-> "f1", query |-> "q1", result_requirement |-> "r1", solution_summary |-> "m1"] >>,
      << [file |-> "f1", query |-> "q1", result_requirement |-> "r1", solution_summary |-> "m1"],
         [file |-> "f2", query |-> "q2", result_requirement |-> "r2", solution_summary |-> "m2"] >> }

PerceptionVariants(wide) ==
    IF wide
    THEN { [confidence |-> "0.9", reasoning |-> "why1", solution_summary |-> <<"s", "1">>],
           [confidence |-> "0.5", reasoning |-> "why2", solution_summary |-> <<"s", "2">>] }
    ELSE { [confidence |-> "0.9", reasoning |-> "why1", solution_summary |-> <<"s", "1">>] }

\* absent names the required key an answer lacks, "" when it lacks none
PerceptionResults(wide) ==
    { [original_goal_achieved |-> o, local_goal_achieved |-> l,
       confidence |-> v.confidence, reasoning |-> v.reasoning,
       solution_summary |-> v.solution_summary, absent |-> ""] :
         o \in BOOLEAN, l \in BOOLEAN, v \in PerceptionVariants(wide) }

PerceptionKeys ==
    {"original_goal_achieved", "local_goal_achieved", "confidence", "reasoning",
     "solution_summary"}

\* answers of perception that lack one required key
IncompletePerceptionResults(wide) ==
    IF wide
    THEN { [original_goal_achieved |-> FALSE, local_goal_achieved |-> TRUE,
            confidence |-> "0.9", reasoning |-> "why1",
            solution_summary |-> <<"s", "1">>, absent |-> k] : k \in PerceptionKeys }
    ELSE {}

StepTypes == {"CODE", "CONCLUDE", "NOP", "OTHER"}

PlanTexts(wide) ==
    IF wide THEN { <<"line1">>, <<"line1", "line2">> } ELSE { <<"line1", "line2">> }

Descriptions(wide) == IF wide THEN {"d1", "d2"} ELSE {"d1"}

StepIndexes(wide) == IF wide THEN {0, 1} ELSE {0}

DecisionOutputs(wide) ==
    { [step_index |-> i, description |-> d, type |-> t,
       code |-> IF t = "CODE" THEN Some("code") ELSE None,
       conclusion |-> IF t = "CONCLUDE" THEN Some(ConclusionText) ELSE None,
       plan_text |-> p, absent |-> ""] :
         i \in StepIndexes(wide), d \in Descriptions(wide), t \in StepTypes,
         p \in PlanTexts(wide) }

\* answers of the decision component that lack one required key: any of the
\* four common keys, code of a CODE step, conclusion of a CONCLUDE step
IncompleteDecisionOutputs(wide) ==
    IF wide
    THEN { [step_index |-> 0, description |-> "d1", type |-> "CODE",
            code |-> IF k = "code" THEN None ELSE Some("code"), conclusion |-> None,
            plan_text |-> <<"line1", "line2">>, absent |-> k] :
              k \in {"step_index", "description", "type", "plan_text", "code"} }
         \cup
         { [step_index |-> 0, description |-> "d1", type |-> "CONCLUDE",
            code |-> None, conclusion |-> None,
            plan_text |-> <<"line1", "line2">>, absent |-> "conclusion"] }
    ELSE {}

ExecutorResponses ==
    { [has_result |-> TRUE, result |-> <<"o", "k">>],
      [has_result |-> FALSE, result |-> <<>>] }

\* answers are drawn from the wide sets while at most WideVersions plan
\* versions exist
Wide == Len(session.plan_versions) <= WideVersions
WideDecision == Len(session.plan_versions) < WideVersions

----------------------------------------------------------------------------
(* Data model (agent.agentSession) *)

ExecUnset == [kind |-> "unset", has_result |-> FALSE, result |-> <<>>]
ExecResponse(resp) == [kind |-> "executor", has_result |-> resp.has_result, result |-> resp.result]
ExecText(t) == [kind |-> "text", has_result |-> TRUE, result |-> t]

\* PerceptionSnapshot(**perception_result)
PerceptionSnapshot(perception_result) ==
    [ original_goal_achieved |-> perception_result.original_goal_achieved,
      local_goal_achieved |-> perception_result.local_goal_achieved,
      confidence |-> perception_result.confidence,
      reasoning |-> perception_result.reasoning,
      solution_summary |-> perception_result.solution_summary ]

\* PerceptionSnapshot(**perception_result) with a required field missing
\* is a construction error
SnapshotRaises(perception_result) == perception_result.absent # ""

\* AgentSession(session_id, original_query)
NewSession(query) ==
    [ original_query |-> query,
      perception |-> None,
      plan_versions |-> <<>>,
      state |-> [ original_goal_achieved |-> FALSE,
                  final_answer |-> None,
                  confidence |-> None,
                  reasoning_note |-> None,
                  solution_summary |-> None ] ]

\* session.add_perception(snapshot)
add_perception(sess, snapshot) == [sess EXCEPT !.perception = Some(snapshot)]

\* session.add_plan_version(plan_text, steps): appends, the new version's
\* first step becomes the current step
add_plan_version(sess, plan_text, steps) ==
    [sess EXCEPT !.plan_versions = Append(@, [plan_text |-> plan_text, steps |-> steps])]

\* session.mark_complete(perception, final_answer=None)
mark_complete_Toggling(sess, perception, final_answer) ==
    [sess EXCEPT !.state =
        [ original_goal_achieved |-> ~sess.state.original_goal_achieved,
          final_answer |-> IF final_answer # None THEN final_answer
                           ELSE Some(perception.solution_summary),
          confidence |-> Some(perception.confidence),
          reasoning_note |-> Some(perception.reasoning),
          solution_summary |-> Some(perception.solution_summary) ]]
mark_complete(sess, perception, final_answer) ==
    [sess EXCEPT !.state =
        [ original_goal_achieved |-> perception.original_goal_achieved,
          final_answer |-> IF final_answer # None THEN final_answer
                           ELSE Some(perception.solution_summary),
          confidence |-> Some(perception.confidence),
          reasoning_note |-> Some(perception.reasoning),
          solution_summary |-> Some(perception.solution_summary) ]]

----------------------------------------------------------------------------
(* AgentLoop helpers *)

\* create_step: decision_output["step_index"], ["description"], ["type"] and,
\* for a CODE step, ["code"] raise KeyError when the key is missing;
\* decision_output.get("conclusion") does not
CreateStepRaises(decision_output) ==
    \/ decision_output.absent \in {"step_index", "description", "type"}
    \/ decision_output.type = "CODE" /\ decision_output.absent = "code"

\* create_step(decision_output, session)
create_step_Positional(decision_output) ==
    [ index |-> 0,
      description |-> decision_output.description,
      type |-> decision_output.type,
      code |-> IF decision_output.type = "CODE" THEN decision_output.code ELSE None,
      conclusion |-> decision_output.conclusion,
      execution_result |-> ExecUnset,
      status |-> "pending",
      perception |-> None ]
create_step(decision_output) ==
    [ index |-> decision_output.step_index,
      description |-> decision_output.description,
      type |-> decision_output.type,
      code |-> IF decision_output.type = "CODE" THEN decision_output.code ELSE None,
      conclusion |-> decision_output.conclusion,
      execution_result |-> ExecUnset,
      status |-> "pending",
      perception |-> None ]

\* run_perception: combined_memory = (memory_results or []) + (session_memory or [])
CombinedMemory_Doubled(mem_results, sess_memory) == mem_results \o mem_results
CombinedMemory(mem_results, sess_memory) == mem_results \o sess_memory

PerceptionInput(raw_input, mem_results, sess_memory, snapshot_type, current_plan) ==
    [ raw_input |-> raw_input,
      memory |-> CombinedMemory(mem_results, sess_memory),
      current_plan |-> current_plan,
      snapshot_type |-> snapshot_type ]

\* the step the loop variable `step` refers to: the first step of a version
StepAt(sess, v) == sess.plan_versions[v].steps[1]
CurStep == StepAt(session, step)
WithStep_FirstVersion(sess, v, s) == [sess EXCEPT !.plan_versions[1].steps[1] = s]
WithStep(sess, v, s) == [sess EXCEPT !.plan_versions[v].steps[1] = s]

LatestPlanText(sess) == sess.plan_versions[Len(sess.plan_versions)].plan_text

\* the failure record of execute_step
FailureMemory(s) ==
    [ query |-> s.description,
      result_requirement |-> ToolFailedRequirement,
      solution_summary |-> Prefix(PyStr(s.execution_result), SummaryLimit) ]

\* session_memory.append(failure_memory), then pop(0) when over the limit
PushFailure_KeepsAll(mem, rec) == Append(mem, rec)

PushFailure_DropsNewest(mem, rec) ==
    LET appended == Append(mem, rec)
    IN IF Len(appended) > GLOBAL_PREVIOUS_FAILURE_STEPS
       THEN SubSeq(appended, 1, Len(appended) - 1) ELSE appended

PushFailure(mem, rec) ==
    LET appended == Append(mem, rec)
    IN IF Len(appended) > GLOBAL_PREVIOUS_FAILURE_STEPS THEN Tail(appended) ELSE appended

Bump(c, k) == [c EXCEPT ![k] = @ + 1]

\* a call of a collaborator (memory_search, perception, decision, executor);
\* the two *_before_update counters count the calls made while a change of
\* the session has not been sent to the live-update sink yet
Call(c, k) ==
    IF c.pending_updates = 0 THEN Bump(c, k)
    ELSE Bump(Bump(c, k), IF k = "perception" THEN "perception_before_update"
                                              ELSE "other_before_update")

\* a change of the session that the live-update sink has not seen yet
Transition(c) == Bump(c, "pending_updates")

\* live_update_session(session)
LiveUpdate_Dropped(c) == c
LiveUpdate(c) == [c EXCEPT !.live_update = @ + 1, !.pending_updates = 0]

\* counts the answers of perception and decision that lack a required key
Answered(c, answer) == IF answer.absent = "" THEN c ELSE Bump(c, "contract_violations")

NoPerceptionCall == [raw_input |-> <<>>, memory |-> <<>>, current_plan |-> None, snapshot_type |-> "none"]

\* no answer of the decision component yet
NoAnswer == [step_index |-> 0, description |-> "", type |-> "", code |-> None,
             conclusion |-> None, plan_text |-> <<>>, absent |-> ""]

NoDecisionCall == [plan_mode |-> "none", step_failed |-> FALSE, current_plan_version |-> 0,
                   current_plan |-> <<>>, completed_steps |-> <<>>, current_step |-> 0,
                   answer |-> NoAnswer]

\* a decision call: its decision_input and the answer it got
Asked(decision_input, decision_output) ==
    [ plan_mode |-> decision_input.plan_mode, step_failed |-> decision_input.step_failed,
      current_plan_version |-> decision_input.current_plan_version,
      current_plan |-> decision_input.current_plan,
      completed_steps |-> decision_input.completed_steps,
      current_step |-> decision_input.current_step,
      answer |-> decision_output ]

NoCalls == [memory_search |-> 0, perception |-> 0, decision |-> 0, executor |-> 0,
            live_update |-> 0, evaluate_step |-> 0, mark_complete |-> 0,
            pending_updates |-> 0, perception_before_update |-> 0,
            other_before_update |-> 0, contract_violations |-> 0]

----------------------------------------------------------------------------

\* the state of one invocation of run, right after lines 23-24
InitRun ==
    /\ pc = "search_memory"
    /\ session = NewSession(Query)
    /\ session_memory = <<>>
    /\ memory_results = <<>>
    /\ step = 0
    /\ calls = NoCalls
    /\ lastPerception = NoPerceptionCall
    /\ lastDecision = NoDecisionCall
    /\ completedWith = None

\* Session 6: the module globals of lines 47-50, before main is called
NoTally == [generations |-> 0, acts |-> 0, tool_runs |-> 0, completed |-> 0, ended |-> ""]
NoDecision == [raised |-> FALSE, func_name |-> <<>>, params |-> <<>>]

InitMain ==
    /\ main_pc = "idle"
    /\ iteration = 0
    /\ last_response = <<>>
    /\ iteration_response = <<>>
    /\ response_text = <<>>
    /\ decided = NoDecision
    /\ tally = NoTally

\* Session 6 Action.act: no call made yet
ListParams(items) == [is_dict |-> FALSE, names |-> <<>>, items |-> items]
DictParams(names, items) == [is_dict |-> TRUE, names |-> names, items |-> items]
NoOutcome == [raised |-> "", ran |-> FALSE, value |-> <<>>, returned |-> <<>>]

InitAct ==
    /\ act_pc = "idle"
    /\ act_call = [func_name |-> "", params |-> ListParams(<<>>)]
    /\ arguments = <<>>
    /\ act_outcome = NoOutcome

\* Session 7 MemoryStore: the request threads, and the file as __init__
\* leaves it in a new data directory (lines 13-14)
Requests == {1, 2}
PreferenceKeys == {"theme"}
Urls == {"u1", "u2"}
NewMemory == [preferences |-> [k \in PreferenceKeys |-> <<>>], pages |-> <<>>]
NoRequest == [pc |-> "idle", op |-> "", key |-> "", value |-> "",
              data |-> NewMemory, before |-> NewMemory, result |-> <<>>, calls |-> 0]

InitMemory ==
    /\ memory_file = <<NewMemory>>
    /\ requests = [r \in Requests |-> NoRequest]
    /\ page_log = [u \in Urls |-> <<>>]

\* Session 7 EmbeddingStore: __init__ in a new data directory (lines 20-22);
\* a dict with no key
NoMetadata == [i \in {} |-> <<>>]

InitStore ==
    /\ index = <<>>
    /\ metadata = NoMetadata
    /\ index_file = <<>>
    /\ meta_file = <<>>
    /\ added = <<>>

\* Session 9: no HeuristicEngine made yet
NoHeuristicResult == [passed |-> FALSE, severity |-> "", next_action |-> ""]

InitRetry ==
    /\ retry_pc = "idle"
    /\ config = [max_retry_attempts |-> 0]
    /\ attempt = 0
    /\ timeout_result = NoHeuristicResult
    /\ retried = [retries |-> 0, slept |-> 0]

InitOthers ==
    /\ InitMain
    /\ InitAct
    /\ InitMemory
    /\ InitStore
    /\ InitRetry

Init ==
    /\ InitRun
    /\ runs = <<>>
    /\ windows = <<>>
    /\ InitOthers

(* run, line 27: memory_results = self.search_memory(query) *)
SearchMemory ==
    /\ pc = "search_memory"
    /\ \E results \in MemoryResults : memory_results' = results
    /\ calls' = Call(calls, "memory_search")
    /\ pc' = "opening_perception"
    /\ UNCHANGED <<session, session_memory, step, lastPerception, lastDecision, completedWith>>
    /\ UNCHANGED outsideRun

\* run, line 31: if perception_result.get("original_goal_achieved")
OpeningGoalAchieved_Local(perception_result) == perception_result.local_goal_achieved
OpeningGoalAchieved(perception_result) == perception_result.original_goal_achieved

\* handle_perception_completion(session, perception_result)
handle_perception_completion_ReasoningAnswer(sess, perception_result) ==
    [sess EXCEPT !.state =
        [ original_goal_achieved |-> TRUE,
          final_answer |-> Some(<<perception_result.reasoning>>),
          confidence |-> Some(perception_result.confidence),
          reasoning_note |-> Some(perception_result.reasoning),
          solution_summary |-> Some(perception_result.solution_summary) ]]
handle_perception_completion(sess, perception_result) ==
    [sess EXCEPT !.state =
        [ original_goal_achieved |-> TRUE,
          final_answer |-> Some(perception_result.solution_summary),
          confidence |-> Some(perception_result.confidence),
          reasoning_note |-> Some(perception_result.reasoning),
          solution_summary |-> Some(perception_result.solution_summary) ]]

(* run, lines 28-33: the opening perception and the fast path.            *)
(* memory_results is not read after this call; the model forgets it.      *)
OpeningPerception ==
    /\ pc = "opening_perception"
    /\ \E perception_result \in PerceptionResults(Wide) \cup IncompletePerceptionResults(Wide) :
         LET called == Answered(Call(calls, "perception"), perception_result)
         IN IF SnapshotRaises(perception_result)
            THEN /\ session' = session
                 /\ calls' = called
                 /\ pc' = "raised"
            ELSE LET perceived == add_perception(session, PerceptionSnapshot(perception_result))
                 IN IF OpeningGoalAchieved(perception_result)
                    THEN /\ session' = handle_perception_completion(perceived, perception_result)
                         /\ calls' = LiveUpdate(Transition(called))
                         /\ pc' = "returned"
                    ELSE /\ session' = perceived
                         /\ calls' = called
                         /\ pc' = "initial_decision"
    /\ lastPerception' = PerceptionInput(session.original_query, memory_results,
                                         memory_results, "user_query", None)
    /\ memory_results' = <<>>
    /\ UNCHANGED <<session_memory, step, lastDecision, completedWith>>
    /\ UNCHANGED outsideRun

\* run, line 36, and append_new_plan_version, lines 220-223: the arguments of
\* add_plan_version are decision_output["plan_text"] and the created step
AppendRaises_PlanTextOnly(decision_output) == decision_output.absent = "plan_text"
AppendRaises(decision_output) ==
    \/ decision_output.absent = "plan_text"
    \/ CreateStepRaises(decision_output)

\* append_new_plan_version(session, decision_output); also run, lines 36-37
append_new_plan_version_NoStep(sess, decision_output) ==
    add_plan_version(sess, decision_output.plan_text, <<>>)
append_new_plan_version_Dedup(sess, decision_output) ==
    IF /\ Len(sess.plan_versions) > 0
       /\ sess.plan_versions[Len(sess.plan_versions)].plan_text = decision_output.plan_text
    THEN sess
    ELSE add_plan_version(sess, decision_output.plan_text, <<create_step(decision_output)>>)
append_new_plan_version(sess, decision_output) ==
    add_plan_version(sess, decision_output.plan_text, <<create_step(decision_output)>>)

\* the decision call and what run and append_new_plan_version do with its answer
Decide(before, decision_input) ==
    /\ \E decision_output \in DecisionOutputs(WideDecision)
                              \cup IncompleteDecisionOutputs(Wide) :
         LET called == Answered(Call(before, "decision"), decision_output)
         IN /\ IF AppendRaises(decision_output)
               THEN /\ UNCHANGED <<session, step>>
                    /\ calls' = called
                    /\ pc' = "raised"
               ELSE /\ session' = append_new_plan_version(session, decision_output)
                    /\ step' = Len(session'.plan_versions)
                    /\ calls' = LiveUpdate(Transition(called))
                    /\ pc' = "execute"
            /\ lastDecision' = Asked(decision_input, decision_output)
    /\ UNCHANGED <<session_memory, memory_results, lastPerception, completedWith>>
    /\ UNCHANGED outsideRun

(* run, lines 35-37: make_initial_decision, plan version 1 *)
InitialDecision ==
    /\ pc = "initial_decision"
    /\ Decide(calls, [ plan_mode |-> "initial", step_failed |-> FALSE,
                       current_plan_version |-> 0, current_plan |-> <<>>,
                       completed_steps |-> <<>>, current_step |-> 0 ])

\* run, lines 43-46: a None from execute_step breaks the loop, a step is evaluated
LoopAfterExecute_NoBreak(step_result) == "evaluate"
LoopAfterExecute_SkipEvaluate(step_result) ==
    IF step_result = None THEN "returned" ELSE "execute"
LoopAfterExecute(step_result) == IF step_result = None THEN "returned" ELSE "evaluate"

(* execute_step, CODE branch, lines 113-117: the executor call *)
RunUserCode ==
    /\ pc = "execute"
    /\ CurStep.type = "CODE"
    /\ \E executor_response \in ExecutorResponses :
         session' = WithStep(session, step,
                        [CurStep EXCEPT !.execution_result = ExecResponse(executor_response),
                                        !.status = "completed"])
    /\ calls' = Transition(Call(calls, "executor"))
    /\ pc' = "perceive_result"
    /\ UNCHANGED <<session_memory, memory_results, step, lastPerception, lastDecision,
                   completedWith>>
    /\ UNCHANGED outsideRun

\* executor_response.get('result', 'Tool Failed')
ResultText_Empty(execution_result) ==
    IF execution_result.has_result THEN execution_result.result ELSE <<>>
ResultText(execution_result) ==
    IF execution_result.has_result THEN execution_result.result ELSE ToolFailedText

\* execute_step, line 127: if not step.perception or not step.perception.local_goal_achieved
RecordsFailure_NeitherGoal(perception) ==
    \/ perception = None
    \/ ~perception[1].local_goal_achieved /\ ~perception[1].original_goal_achieved
RecordsFailure(perception) ==
    perception = None \/ ~perception[1].local_goal_achieved

(* execute_step, CODE branch, lines 119-139: perception on the result,    *)
(* the failure-memory window, the live update; returns the step           *)
PerceiveStepResult ==
    /\ pc = "perceive_result"
    /\ \E perception_result \in PerceptionResults(Wide) \cup IncompletePerceptionResults(Wide) :
         LET called == Answered(Call(calls, "perception"), perception_result)
         IN IF SnapshotRaises(perception_result)
            THEN /\ UNCHANGED <<session, session_memory>>
                 /\ calls' = called
                 /\ pc' = "raised"
            ELSE LET perceived == [CurStep EXCEPT !.perception =
                                       Some(PerceptionSnapshot(perception_result))]
                 IN /\ session' = WithStep(session, step, perceived)
                    /\ IF RecordsFailure(perceived.perception)
                       THEN session_memory' = PushFailure(session_memory, FailureMemory(perceived))
                       ELSE UNCHANGED session_memory
                    /\ calls' = LiveUpdate(called)
                    /\ pc' = LoopAfterExecute(Some(step))
    /\ lastPerception' = PerceptionInput(ResultText(CurStep.execution_result), session_memory,
                                         <<>>, "step_result", Some(LatestPlanText(session)))
    /\ UNCHANGED <<memory_results, step, lastDecision, completedWith>>
    /\ UNCHANGED outsideRun

\* execute_step, line 143: step.execution_result = step.conclusion
ConcludeResult(s) == IF s.conclusion = None THEN ExecUnset ELSE ExecText(s.conclusion[1])

\* execute_step, line 147: query=step.conclusion; a missing conclusion is
\* passed to perception as None
ConcludeInput(s) == IF s.conclusion = None THEN <<"None">> ELSE s.conclusion[1]

\* execute_step, line 154: final_answer=step.conclusion
ConcludeFinalAnswer_Omitted(s) == None
ConcludeFinalAnswer(s) == s.conclusion

(* execute_step, CONCLUDE branch, lines 141-156; returns None *)
ExecuteConclude ==
    /\ pc = "execute"
    /\ CurStep.type = "CONCLUDE"
    /\ \E perception_result \in PerceptionResults(Wide) \cup IncompletePerceptionResults(Wide) :
         LET started == [CurStep EXCEPT !.execution_result = ConcludeResult(CurStep),
                                        !.status = "completed"]
             called == Answered(Call(Transition(calls), "perception"), perception_result)
         IN IF SnapshotRaises(perception_result)
            THEN /\ session' = WithStep(session, step, started)
                 /\ UNCHANGED completedWith
                 /\ calls' = called
                 /\ pc' = "raised"
            ELSE LET snapshot == PerceptionSnapshot(perception_result)
                     concluded == [started EXCEPT !.perception = Some(snapshot)]
                 IN /\ session' = mark_complete(WithStep(session, step, concluded), snapshot,
                                                ConcludeFinalAnswer(concluded))
                    /\ completedWith' = Some([perception |-> snapshot,
                                              final_answer |-> ConcludeFinalAnswer(concluded)])
                    /\ calls' = LiveUpdate(Transition(Bump(called, "mark_complete")))
                    /\ pc' = LoopAfterExecute(None)
    /\ lastPerception' = PerceptionInput(ConcludeInput(CurStep), session_memory, <<>>,
                                         "step_result", Some(LatestPlanText(session)))
    /\ UNCHANGED <<session_memory, memory_results, step, lastDecision>>
    /\ UNCHANGED outsideRun

\* execute_step, line 160: step.status = "clarification_needed"
MarkClarification_Completed(s) == [s EXCEPT !.status = "completed"]
MarkClarification(s) == [s EXCEPT !.status = "clarification_needed"]

(* execute_step, NOP branch, lines 158-162; returns None *)
ExecuteNop ==
    /\ pc = "execute"
    /\ CurStep.type = "NOP"
    /\ session' = WithStep(session, step, MarkClarification(CurStep))
    /\ calls' = LiveUpdate(Transition(calls))
    /\ pc' = LoopAfterExecute(None)
    /\ UNCHANGED <<session_memory, memory_results, step, lastPerception, lastDecision,
                   completedWith>>
    /\ UNCHANGED outsideRun

(* execute_step with a type that is none of the three: no branch is taken, *)
(* the method returns None                                                 *)
ExecuteOtherType_Raises ==
    /\ pc = "execute"
    /\ CurStep.type \notin {"CODE", "CONCLUDE", "NOP"}
    /\ pc' = "raised"
    /\ UNCHANGED <<session, session_memory, memory_results, step, calls, lastPerception,
                   lastDecision, completedWith>>
    /\ UNCHANGED outsideRun
ExecuteOtherType ==
    /\ pc = "execute"
    /\ CurStep.type \notin {"CODE", "CONCLUDE", "NOP"}
    /\ pc' = LoopAfterExecute(None)
    /\ UNCHANGED <<session, session_memory, memory_results, step, calls, lastPerception,
                   lastDecision, completedWith>>
    /\ UNCHANGED outsideRun

\* run_mid_session_decision, line 212: if s.status == "completed"
IsCompleted_Succeeded(s) ==
    /\ s.status = "completed"
    /\ s.perception # None
    /\ s.perception[1].local_goal_achieved
IsCompleted(s) == s.status = "completed"

\* the completed_steps of run_mid_session_decision
RECURSIVE CompletedSteps(_, _)
CompletedSteps(plan_versions, n) ==
    IF n = 0 THEN <<>>
    ELSE CompletedSteps(plan_versions, n - 1)
         \o SelectSeq(plan_versions[n].steps, IsCompleted)

\* the decision_input of run_mid_session_decision
MidSessionInput(sess, completed_step, step_failed) ==
    [ plan_mode |-> "mid_session", step_failed |-> step_failed,
      current_plan_version |-> Len(sess.plan_versions),
      current_plan |-> LatestPlanText(sess),
      completed_steps |-> CompletedSteps(sess.plan_versions, Len(sess.plan_versions)),
      current_step |-> completed_step ]

\* run_mid_session_decision followed by append_new_plan_version
MidSessionDecision(step_failed) ==
    /\ Len(session.plan_versions) < MaxPlanVersions
    /\ Decide(Bump(calls, "evaluate_step"), MidSessionInput(session, step, step_failed))

\* evaluate_step or get_next_step returns None without a change of the session
ReturnNoStep ==
    /\ step' = 0
    /\ calls' = Bump(calls, "evaluate_step")
    /\ pc' = "returned"
    /\ UNCHANGED <<session, session_memory, memory_results, lastPerception, lastDecision,
                   completedWith>>
    /\ UNCHANGED outsideRun

\* evaluate_step, lines 165-174: which branch a snapshot takes
EvaluateBranch_LocalFirst(snapshot) ==
    IF snapshot.local_goal_achieved THEN "advance"
    ELSE IF snapshot.original_goal_achieved THEN "complete"
    ELSE "replan"
EvaluateBranch_NeverComplete(snapshot) ==
    IF snapshot.local_goal_achieved THEN "advance" ELSE "replan"
EvaluateBranch(snapshot) ==
    IF snapshot.original_goal_achieved THEN "complete"
    ELSE IF snapshot.local_goal_achieved THEN "advance"
    ELSE "replan"

(* evaluate_step, lines 165-169: the original goal is achieved *)
EvaluateGoalAchieved ==
    /\ pc = "evaluate"
    /\ EvaluateBranch(CurStep.perception[1]) = "complete"
    /\ session' = mark_complete(session, CurStep.perception[1], None)
    /\ completedWith' = Some([perception |-> CurStep.perception[1], final_answer |-> None])
    /\ step' = 0
    /\ calls' = LiveUpdate(Transition(Bump(Bump(calls, "evaluate_step"), "mark_complete")))
    /\ pc' = "returned"
    /\ UNCHANGED <<session_memory, memory_results, lastPerception, lastDecision>>
    /\ UNCHANGED outsideRun

\* get_next_step, lines 177-180: next_index < len(latest_plan)
HasNextStep_Shorter(sess, completed_step) ==
    completed_step.index + 1 < Len(LatestPlanText(sess)) - 1
HasNextStep_Inclusive(sess, completed_step) ==
    completed_step.index + 1 <= Len(LatestPlanText(sess))
HasNextStep(sess, completed_step) ==
    completed_step.index + 1 < Len(LatestPlanText(sess))

(* evaluate_step, lines 170-171, and get_next_step with a next plan line *)
EvaluateAdvance ==
    /\ pc = "evaluate"
    /\ EvaluateBranch(CurStep.perception[1]) = "advance"
    /\ HasNextStep(session, CurStep)
    /\ MidSessionDecision(FALSE)

(* evaluate_step, lines 170-171, and get_next_step without a next plan line *)
EvaluateNoMoreSteps ==
    /\ pc = "evaluate"
    /\ EvaluateBranch(CurStep.perception[1]) = "advance"
    /\ ~HasNextStep(session, CurStep)
    /\ ReturnNoStep

\* replan_after_failure: the mid-session decision with step_failed=True
replan_after_failure_NotFailed == MidSessionDecision(FALSE)
replan_after_failure_Capped ==
    IF Len(session.plan_versions) < GLOBAL_PREVIOUS_FAILURE_STEPS
    THEN MidSessionDecision(TRUE)
    ELSE ReturnNoStep
replan_after_failure == MidSessionDecision(TRUE)

(* evaluate_step, lines 172-174 *)
EvaluateReplan ==
    /\ pc = "evaluate"
    /\ EvaluateBranch(CurStep.perception[1]) = "replan"
    /\ replan_after_failure

Next ==
    \/ SearchMemory
    \/ OpeningPerception
    \/ InitialDecision
    \/ RunUserCode
    \/ PerceiveStepResult
    \/ ExecuteConclude
    \/ ExecuteNop
    \/ ExecuteOtherType
    \/ EvaluateGoalAchieved
    \/ EvaluateAdvance
    \/ EvaluateNoMoreSteps
    \/ EvaluateReplan

Spec == Init /\ [][Next]_vars

----------------------------------------------------------------------------
(* Two invocations of run on one AgentLoop, interleaved at the await of    *)
(* line 43: between two awaits an invocation runs alone.                   *)

MaxPairVersions == 2

Runs == {1, 2}

\* the query and the step descriptions of each invocation differ
RunQuery(r) == IF r = 1 THEN <<"q", "1">> ELSE <<"q", "2">>
RunDescription(r) == IF r = 1 THEN "a" ELSE "b"

PairPerceptionResults == PerceptionResults(FALSE)

\* the answers of perception on a conclusion
PairConcludeResults ==
    { p \in PairPerceptionResults : p.original_goal_achieved /\ p.local_goal_achieved }

PairExecutorResponses == { e \in ExecutorResponses : e.has_result }

PairDecisionOutputs(r) ==
    { [step_index |-> 0, description |-> RunDescription(r), type |-> t,
       code |-> IF t = "CODE" THEN Some("code") ELSE None,
       conclusion |-> IF t = "CONCLUDE" THEN Some(ConclusionText) ELSE None,
       plan_text |-> p, absent |-> ""] :
         t \in {"CODE", "CONCLUDE", "NOP"}, p \in PlanTexts(TRUE) }

\* run, line 24: session_memory = [] is a local of the invocation
WindowOf_Shared(r) == 1
WindowOf(r) == r

\* the records of a failure-memory window
Records(window) == { window[i] : i \in 1..Len(window) }

\* execute_step on the step of the newest plan version, up to the await of
\* the executor (CODE) or to its return (CONCLUDE, NOP); seen collects the
\* memory of the perception calls on step results
StartStep(sess, window, seen, perception_result) ==
    LET v == Len(sess.plan_versions)
        s == StepAt(sess, v)
        snapshot == PerceptionSnapshot(perception_result)
        concluded == [s EXCEPT !.execution_result = ConcludeResult(s),
                               !.status = "completed",
                               !.perception = Some(snapshot)]
    IN IF s.type = "CODE"
       THEN [pc |-> "awaiting", session |-> sess, step |-> v, seen |-> seen]
       ELSE IF s.type = "CONCLUDE"
       THEN [pc |-> LoopAfterExecute(None),
             session |-> mark_complete(WithStep(sess, v, concluded), snapshot,
                                       ConcludeFinalAnswer(concluded)),
             step |-> v, seen |-> seen \cup Records(window)]
       ELSE [pc |-> LoopAfterExecute(None),
             session |-> WithStep(sess, v, MarkClarification(s)),
             step |-> v, seen |-> seen]

InitTwoRuns ==
    /\ InitRun
    /\ runs = [r \in Runs |-> [pc |-> "idle", session |-> NewSession(RunQuery(r)),
                               step |-> 0, seen |-> {}]]
    /\ windows = [r \in Runs |-> <<>>]
    /\ InitOthers

(* run, lines 23-43: from the call of run to the first await or the return *)
Begin(r) ==
    /\ runs[r].pc = "idle"
    /\ \E opening \in PairPerceptionResults, decision_output \in PairDecisionOutputs(r),
          perception_result \in PairConcludeResults :
         LET perceived == add_perception(NewSession(RunQuery(r)), PerceptionSnapshot(opening))
         IN runs' = [runs EXCEPT ![r] =
                IF OpeningGoalAchieved(opening)
                THEN [pc |-> "returned",
                      session |-> handle_perception_completion(perceived, opening),
                      step |-> 0, seen |-> {}]
                ELSE StartStep(append_new_plan_version(perceived, decision_output),
                               <<>>, {}, perception_result)]
    /\ windows' = [windows EXCEPT ![WindowOf(r)] = <<>>]
    /\ UNCHANGED outsidePair

(* run, lines 43-46 with execute_step, lines 115-139, and evaluate_step:   *)
(* from the answer of the executor to the next await or the return         *)
Resume(r) ==
    /\ runs[r].pc = "awaiting"
    /\ \E executor_response \in PairExecutorResponses, answer \in PairPerceptionResults,
          decision_output \in PairDecisionOutputs(r),
          perception_result \in PairConcludeResults :
         LET sess == runs[r].session
             v == runs[r].step
             window == windows[WindowOf(r)]
             perceived == [StepAt(sess, v) EXCEPT
                              !.execution_result = ExecResponse(executor_response),
                              !.status = "completed",
                              !.perception = Some(PerceptionSnapshot(answer))]
             executed == WithStep(sess, v, perceived)
             seen == runs[r].seen \cup Records(window)
             pushed == IF RecordsFailure(perceived.perception)
                       THEN PushFailure(window, FailureMemory(perceived))
                       ELSE window
             branch == EvaluateBranch(perceived.perception[1])
         IN /\ windows' = [windows EXCEPT ![WindowOf(r)] = pushed]
            /\ IF branch = "complete"
               THEN runs' = [runs EXCEPT ![r] =
                        [pc |-> "returned",
                         session |-> mark_complete(executed, perceived.perception[1], None),
                         step |-> 0, seen |-> seen]]
               ELSE IF branch = "advance" /\ ~HasNextStep(executed, perceived)
               THEN runs' = [runs EXCEPT ![r] =
                        [pc |-> "returned", session |-> executed, step |-> 0, seen |-> seen]]
               ELSE /\ Len(executed.plan_versions) < MaxPairVersions
                    /\ runs' = [runs EXCEPT ![r] =
                          StartStep(append_new_plan_version(executed, decision_output),
                                    pushed, seen, perception_result)]
    /\ UNCHANGED outsidePair

NextTwoRuns == \E r \in Runs : Begin(r) \/ Resume(r)

SpecTwoRuns == InitTwoRuns /\ [][NextTwoRuns]_vars

----------------------------------------------------------------------------
(* Properties *)

\* the records of the CODE steps judged locally failed, in plan-version
\* (= execution) order
RECURSIVE FailedRecords(_, _)
FailedRecords(sess, n) ==
    IF n = 0 THEN <<>>
    ELSE LET s == StepAt(sess, n)
         IN FailedRecords(sess, n - 1) \o
            (IF s.type = "CODE" /\ s.perception # None
                /\ ~s.perception[1].local_goal_achieved
             THEN <<FailureMemory(s)>> ELSE <<>>)

Failed == FailedRecords(session, Len(session.plan_versions))

\* the step of the latest plan version
LatestStep == StepAt(session, Len(session.plan_versions))

LastN(seq, n) == SubSeq(seq, Len(seq) - n + 1, Len(seq))

\* C1: fast-path law.  When the opening perception reports the original goal
\* achieved, no decision and no executor call is ever made, run has returned
\* and session.state.original_goal_achieved is true.
FastPathLaw ==
    (session.perception # None /\ session.perception[1].original_goal_achieved)
        => /\ calls.decision = 0
           /\ calls.executor = 0
           /\ pc = "returned"
           /\ session.state.original_goal_achieved

FastPathTaken ==
    /\ pc = "returned"
    /\ calls.perception = 1
    /\ session.perception # None
    /\ session.perception[1].original_goal_achieved

\* C2: original beats local.  A CODE step whose snapshot reports the original
\* goal achieved, whatever its local flag, is followed by mark_complete with
\* that snapshot and the return of run: no decision call, executor call or
\* plan version follows, and nothing happens after run has returned.
OriginalBeatsLocal ==
    /\ [](\A v \in 1..(Len(session.plan_versions) - 1) :
             /\ StepAt(session, v).perception # None
             /\ ~StepAt(session, v).perception[1].original_goal_achieved)
    /\ [][ /\ pc # "returned"
           /\ (pc = "evaluate" /\ CurStep.perception[1].original_goal_achieved)
                => /\ pc' = "returned"
                   /\ completedWith' = Some([perception |-> CurStep.perception[1],
                                             final_answer |-> None])
                   /\ calls'.mark_complete = calls.mark_complete + 1
                   /\ calls'.decision = calls.decision
                   /\ calls'.executor = calls.executor
                   /\ session'.plan_versions = session.plan_versions ]_vars

CompletedDespiteLocalFailure ==
    /\ pc = "returned"
    /\ calls.evaluate_step > 0
    /\ completedWith # None
    /\ completedWith[1].perception.original_goal_achieved
    /\ ~completedWith[1].perception.local_goal_achieved

\* C3: advance rule.  After a CODE step judged locally achieved but not
\* originally achieved, with index + 1 < len(plan_text of the latest version),
\* the next thing run does is one mid-session decision with step_failed =
\* false, one new plan version, and the loop goes on with that version's step
\* (a decision answer from which no step can be built ends run with the error).
AdvanceRule ==
    [][ (/\ pc = "evaluate"
         /\ ~CurStep.perception[1].original_goal_achieved
         /\ CurStep.perception[1].local_goal_achieved
         /\ CurStep.index + 1 < Len(LatestPlanText(session)))
          => /\ calls'.decision = calls.decision + 1
             /\ lastDecision'.plan_mode = "mid_session"
             /\ lastDecision'.step_failed = FALSE
             /\ pc' # "raised"
                  => /\ Len(session'.plan_versions) = Len(session.plan_versions) + 1
                     /\ SubSeq(session'.plan_versions, 1, Len(session.plan_versions))
                          = session.plan_versions
                     /\ pc' = "execute"
                     /\ step' = Len(session'.plan_versions)
                     /\ StepAt(session', step').status = "pending" ]_vars

AdvancedToNewVersion ==
    /\ pc = "execute"
    /\ lastDecision.plan_mode = "mid_session"
    /\ ~lastDecision.step_failed
    /\ Len(session.plan_versions) = lastDecision.current_plan_version + 1

\* the failure half of C4: a CODE step judged locally failed adds its record
\* as the newest entry of the window
FailureRecorded ==
    (/\ pc = "perceive_result"
     /\ pc' # "raised"
     /\ ~CurStep'.perception[1].local_goal_achieved)
        => /\ Len(FailedRecords(session', Len(session'.plan_versions))) = Len(Failed) + 1
           /\ session_memory' # <<>>
           /\ session_memory'[Len(session_memory')] = FailureMemory(CurStep')

\* C4 as claimed: every CODE step judged locally failed adds its record to
\* the window and is followed by a mid-session decision with step_failed = true.
ReplanRuleAsClaimed ==
    [][ /\ FailureRecorded
        /\ (pc = "evaluate" /\ ~CurStep.perception[1].local_goal_achieved)
             => /\ calls'.decision = calls.decision + 1
                /\ lastDecision'.plan_mode = "mid_session"
                /\ lastDecision'.step_failed ]_vars

\* C4, amended: every CODE step judged locally failed adds its record to the
\* window; when its snapshot does not report the original goal achieved it is
\* followed by a mid-session decision with step_failed = true.
ReplanRule ==
    [][ /\ FailureRecorded
        /\ (/\ pc = "evaluate"
            /\ ~CurStep.perception[1].local_goal_achieved
            /\ ~CurStep.perception[1].original_goal_achieved)
             => /\ calls'.decision = calls.decision + 1
                /\ lastDecision'.plan_mode = "mid_session"
                /\ lastDecision'.step_failed ]_vars

ReplannedAfterFailure ==
    /\ pc = "execute"
    /\ lastDecision.plan_mode = "mid_session"
    /\ lastDecision.step_failed
    /\ session_memory # <<>>
    /\ session_memory[Len(session_memory)] = FailureMemory(StepAt(session, lastDecision.current_step))

\* C5: the failure-memory window never holds more than 3 entries, neither
\* between steps nor as the memory of a perception call on a step result.
FailureWindowBound ==
    /\ Len(session_memory) <= 3
    /\ lastPerception.snapshot_type = "step_result" => Len(lastPerception.memory) <= 3

FullWindowPerceived ==
    /\ Len(Failed) >= 4
    /\ Len(session_memory) = 3
    /\ lastPerception.snapshot_type = "step_result"
    /\ Len(lastPerception.memory) = 3

\* C6: FIFO eviction.  After k failed CODE steps the window is the records of
\* the last min(k, 3) of them, in the order they failed.
FifoEviction ==
    session_memory = LastN(Failed, Min(Len(Failed), 3))

OldestEvicted ==
    /\ Len(Failed) >= 4
    /\ \A i \in 1..Len(session_memory) : session_memory[i] # Failed[1]


\* C7: terminal law.  A CONCLUDE or NOP step is the last step of the session:
\* every step of an earlier plan version is a CODE step, and once execute_step
\* has handled a CONCLUDE or NOP step run returns without evaluate_step, a
\* decision call, an executor call or a new plan version (or fails on the
\* perception answer for the conclusion); nothing follows the return.
TerminalLaw ==
    /\ [](\A v \in 1..(Len(session.plan_versions) - 1) : StepAt(session, v).type = "CODE")
    /\ [][ /\ pc # "returned"
           /\ (pc = "execute" /\ CurStep.type \in {"CONCLUDE", "NOP"})
                => /\ pc' \in {"returned", "raised"}
                   /\ calls'.evaluate_step = calls.evaluate_step
                   /\ calls'.decision = calls.decision
                   /\ calls'.executor = calls.executor
                   /\ calls'.perception <= calls.perception + 1
                   /\ Len(session'.plan_versions) = Len(session.plan_versions) ]_vars

TerminalStepAfterCode ==
    /\ pc = "returned"
    /\ step > 1
    /\ CurStep.type \in {"CONCLUDE", "NOP"}
    /\ CurStep.status # "pending"

\* C8: CONCLUDE handling.  Once a CONCLUDE step is executed its result is the
\* conclusion text, its status is completed, perception ran exactly once on
\* the conclusion text and its snapshot is attached, and the session was
\* marked complete once, with that snapshot and the conclusion as the final
\* answer, whatever flags the snapshot carries.
ConcludeHandling ==
    (step # 0 /\ CurStep.type = "CONCLUDE" /\ CurStep.conclusion # None)
        => /\ pc \in {"execute", "returned", "raised"}
           /\ pc = "execute" => calls.perception = Len(session.plan_versions)
           /\ pc = "returned"
                => /\ CurStep.execution_result = ExecText(CurStep.conclusion[1])
                   /\ CurStep.status = "completed"
                   /\ calls.perception = Len(session.plan_versions) + 1
                   /\ lastPerception.raw_input = CurStep.conclusion[1]
                   /\ lastPerception.snapshot_type = "step_result"
                   /\ CurStep.perception # None
                   /\ calls.mark_complete = 1
                   /\ completedWith = Some([perception |-> CurStep.perception[1],
                                            final_answer |-> CurStep.conclusion])

ConcludedWithoutGoalFlags ==
    /\ pc = "returned"
    /\ step # 0
    /\ CurStep.type = "CONCLUDE"
    /\ ~CurStep.perception[1].original_goal_achieved
    /\ ~CurStep.perception[1].local_goal_achieved
    /\ completedWith # None

\* C9: clarification.  For a NOP step run returns with the step's status
\* clarification_needed, no result and no snapshot on it, the session state
\* as it was created and never marked complete; neither the executor nor
\* perception is called for the step.
ClarificationNop ==
    (step # 0 /\ CurStep.type = "NOP")
        => /\ pc \in {"execute", "returned"}
           /\ pc = "returned" => CurStep.status = "clarification_needed"
           /\ CurStep.execution_result = ExecUnset
           /\ CurStep.perception = None
           /\ session.state = NewSession(session.original_query).state
           /\ completedWith = None
           /\ calls.mark_complete = 0
           /\ calls.executor = Len(session.plan_versions) - 1
           /\ calls.perception = Len(session.plan_versions)

ClarificationReturned ==
    /\ pc = "returned"
    /\ step # 0
    /\ CurStep.type = "NOP"
    /\ CurStep.status = "clarification_needed"

\* C10: plan exhaustion.  After a CODE step judged locally achieved but not
\* originally achieved, with index + 1 >= len(plan_text of the latest
\* version), run returns with no decision call, no new plan version, no
\* mark_complete and the session state untouched; up to then the session was
\* never marked complete.
PlanExhaustion ==
    /\ [](pc = "evaluate"
            => /\ completedWith = None
               /\ calls.mark_complete = 0
               /\ session.state = NewSession(session.original_query).state)
    /\ [][ /\ pc # "returned"
           /\ (/\ pc = "evaluate"
               /\ ~CurStep.perception[1].original_goal_achieved
               /\ CurStep.perception[1].local_goal_achieved
               /\ CurStep.index + 1 >= Len(LatestPlanText(session)))
                => /\ pc' = "returned"
                   /\ calls'.decision = calls.decision
                   /\ calls'.mark_complete = calls.mark_complete
                   /\ session' = session
                   /\ completedWith' = completedWith ]_vars

PlanExhausted ==
    /\ pc = "returned"
    /\ step = 0
    /\ calls.evaluate_step > 0
    /\ completedWith = None
    /\ LatestStep.perception[1].local_goal_achieved

\* the opening perception reported the original goal achieved
OpeningAchieved ==
    session.perception # None /\ session.perception[1].original_goal_achieved

\* C11 as claimed: once run returns the session has at least one plan version
\* and every plan version's step list is non-empty.
PlanVersionsOnReturnAsClaimed ==
    pc = "returned"
        => /\ Len(session.plan_versions) >= 1
           /\ \A v \in 1..Len(session.plan_versions) :
                Len(session.plan_versions[v].steps) >= 1

\* C11, amended: every plan version's step list is non-empty; once run returns
\* the session has at least one plan version unless the opening perception
\* reported the original goal achieved, and then it has none.
PlanVersionsOnReturn ==
    /\ \A v \in 1..Len(session.plan_versions) : Len(session.plan_versions[v].steps) >= 1
    /\ (pc = "returned" /\ ~OpeningAchieved) => Len(session.plan_versions) >= 1
    /\ (pc = "returned" /\ OpeningAchieved) => Len(session.plan_versions) = 0

ReturnedWithSeveralVersions ==
    /\ pc = "returned"
    /\ ~OpeningAchieved
    /\ Len(session.plan_versions) >= 2

\* C12: plan versioning is append-only and one per decision.  Until run fails
\* the number of plan versions equals the number of decision calls, and a
\* decision call whose answer yields a step appends exactly one version, its
\* plan text equal to the previous one or not, and leaves the plan text and
\* the step list of every earlier version as they were.
VersionPerDecision ==
    /\ [](pc # "raised" => Len(session.plan_versions) = calls.decision)
    /\ [][ (calls'.decision # calls.decision /\ pc' # "raised")
             => /\ calls'.decision = calls.decision + 1
                /\ Len(session'.plan_versions) = Len(session.plan_versions) + 1
                /\ \A v \in 1..Len(session.plan_versions) :
                     /\ session'.plan_versions[v].plan_text = session.plan_versions[v].plan_text
                     /\ session'.plan_versions[v].steps = session.plan_versions[v].steps ]_vars

SamePlanTextAppended ==
    /\ pc = "execute"
    /\ Len(session.plan_versions) >= 2
    /\ session.plan_versions[Len(session.plan_versions)].plan_text
         = session.plan_versions[Len(session.plan_versions) - 1].plan_text
    /\ StepAt(session, Len(session.plan_versions) - 1).status = "completed"

\* C13: sequential ordering.  Every collaborator call is made and answered
\* within one step of run; when the executor is about to be called every
\* earlier executor call was followed by its perception call and by
\* evaluate_step, perception on a result follows exactly one executor call,
\* and evaluate_step follows that perception call.
SerializedCalls ==
    /\ pc = "execute"
         => /\ calls.evaluate_step = calls.executor
            /\ calls.perception = calls.executor + 1
    /\ pc = "perceive_result"
         => /\ calls.evaluate_step = calls.executor - 1
            /\ calls.perception = calls.executor
    /\ pc = "evaluate"
         => /\ calls.evaluate_step = calls.executor - 1
            /\ calls.perception = calls.executor + 1

SecondStepAfterEvaluation ==
    /\ pc = "perceive_result"
    /\ calls.executor = 2
    /\ calls.evaluate_step = 1

\* C15 as claimed: run returns only when the opening perception reported the
\* original goal achieved, a CODE step's snapshot reported it, a locally
\* successful CODE step had no next plan line, or a CONCLUDE or a NOP step
\* was executed.
ExitConditions ==
    pc = "returned"
        => \/ OpeningAchieved
           \/ /\ Len(session.plan_versions) >= 1
              /\ \/ /\ LatestStep.type = "CODE"
                    /\ LatestStep.perception # None
                    /\ LatestStep.perception[1].original_goal_achieved
                 \/ /\ LatestStep.type = "CODE"
                    /\ LatestStep.perception # None
                    /\ LatestStep.perception[1].local_goal_achieved
                    /\ ~(LatestStep.index + 1 < Len(LatestPlanText(session)))
                 \/ LatestStep.type = "CONCLUDE" /\ LatestStep.status = "completed"
                 \/ LatestStep.type = "NOP" /\ LatestStep.status = "clarification_needed"

\* every step so far is a CODE step whose snapshot, once attached, reports
\* neither goal achieved, and every answer carried its required keys
OnlyFailingCodeSteps ==
    /\ ~OpeningAchieved
    /\ calls.contract_violations = 0
    /\ \A v \in 1..Len(session.plan_versions) :
         /\ StepAt(session, v).type = "CODE"
         /\ StepAt(session, v).perception # None
              => /\ ~StepAt(session, v).perception[1].original_goal_achieved
                 /\ ~StepAt(session, v).perception[1].local_goal_achieved

\* C16: no iteration ceiling.  While the decision component answers with CODE
\* steps and perception reports neither goal achieved run does not return,
\* and after each such step the replanning that appends the next plan version
\* is possible, up to the number of plan versions explored.
NoIterationCeiling ==
    OnlyFailingCodeSteps
        => /\ pc \notin {"returned", "raised"}
           /\ (pc = "evaluate" /\ Len(session.plan_versions) < MaxPlanVersions)
                => ENABLED EvaluateReplan

FailedUpToTheBound ==
    /\ OnlyFailingCodeSteps
    /\ pc = "evaluate"
    /\ Len(session.plan_versions) = MaxPlanVersions
    /\ calls.executor = MaxPlanVersions

\* C17 as claimed: when an answer of perception or decision lacks a required
\* key run fails while it builds the snapshot or the step.
FailFastOnMissingField ==
    calls.contract_violations > 0 => pc = "raised"

\* C18 as claimed: no collaborator is called and run does not return while a
\* plan-version append, a status change or a marking complete has not been
\* sent to the live-update sink.
LiveUpdateBeforeNextCallAsClaimed ==
    /\ calls.perception_before_update = 0
    /\ calls.other_before_update = 0
    /\ pc = "returned" => calls.pending_updates = 0

\* C18, amended: memory search, decision and executor are never called, and
\* run never returns, while a change has not been sent to the live-update
\* sink; the perception call on a step's own result is always made between
\* the step's change to completed and the live update, and run fails without
\* that update when the perception answer lacks a required key.
LiveUpdateBeforeNextCall ==
    /\ calls.other_before_update = 0
    /\ calls.perception_before_update = (IF calls.perception = 0 THEN 0 ELSE calls.perception - 1)
    /\ calls.pending_updates > 0 => pc \in {"perceive_result", "raised"}
    /\ pc = "returned" => calls.pending_updates = 0
    /\ (pc = "raised" /\ calls.pending_updates > 0)
         => /\ lastPerception.snapshot_type = "step_result"
            /\ LatestStep.status = "completed"
            /\ LatestStep.perception = None

UpdatedAfterEachStep ==
    /\ pc = "returned"
    /\ calls.perception_before_update >= 2
    /\ calls.live_update >= 5
    /\ calls.mark_complete = 1

\* C20: fast-path result.  When the opening perception reports the original
\* goal achieved run returns a session with no plan version and no executed
\* step, whose final_answer is the perception output's solution_summary, its
\* confidence the output's confidence and its reasoning_note the output's
\* reasoning.
FastPathResult ==
    OpeningAchieved
        => /\ pc = "returned"
           /\ Len(session.plan_versions) = 0
           /\ calls.executor = 0
           /\ session.state.final_answer = Some(session.perception[1].solution_summary)
           /\ session.state.confidence = Some(session.perception[1].confidence)
           /\ session.state.reasoning_note = Some(session.perception[1].reasoning)

FastPathAnswered ==
    /\ pc = "returned"
    /\ OpeningAchieved
    /\ session.state.final_answer = Some(<<"s", "2">>)
    /\ session.state.reasoning_note = Some("why2")

\* C14: session isolation.  With two invocations of run in flight, the memory
\* of every perception call of an invocation holds failure records of its own
\* steps only, each window holds records of its owner only, each session keeps
\* its own query and steps, and a step of one invocation leaves the session
\* and the position of the other as they were.
SessionIsolation ==
    /\ [](\A r \in Runs :
            /\ \A rec \in runs[r].seen : rec.query = RunDescription(r)
            /\ \A rec \in Records(windows[r]) : rec.query = RunDescription(r)
            /\ runs[r].session.original_query = RunQuery(r)
            /\ \A v \in 1..Len(runs[r].session.plan_versions) :
                 StepAt(runs[r].session, v).description = RunDescription(r))
    /\ [][ \E r \in Runs : \A o \in Runs \ {r} :
             /\ runs'[o].session = runs[o].session
             /\ runs'[o].pc = runs[o].pc
             /\ windows'[o] = windows[o] ]_vars

BothWindowsInUse ==
    /\ \A r \in Runs : runs[r].seen # {} /\ windows[r] # <<>>
    /\ \A r \in Runs : runs[r].pc = "returned" /\ Len(runs[r].session.plan_versions) = 2

\* evaluate_step applied once more to the step whose terminal snapshot has
\* just completed the session
ReEvaluate ==
    /\ pc = "returned"
    /\ Len(session.plan_versions) >= 1
    /\ LatestStep.type = "CODE"
    /\ LatestStep.perception # None
    /\ LatestStep.perception[1].original_goal_achieved
    /\ completedWith = Some([perception |-> LatestStep.perception[1], final_answer |-> None])
    /\ LET snapshot == LatestStep.perception[1]
           branch == EvaluateBranch(snapshot)
           evaluated == Bump(calls, "evaluate_step")
       IN IF branch = "complete"
          THEN /\ session' = mark_complete(session, snapshot, None)
               /\ calls' = LiveUpdate(Transition(Bump(evaluated, "mark_complete")))
               /\ UNCHANGED lastDecision
          ELSE IF branch = "advance" /\ ~HasNextStep(session, LatestStep)
          THEN /\ calls' = evaluated
               /\ UNCHANGED <<session, lastDecision>>
          ELSE /\ \E decision_output \in DecisionOutputs(FALSE) :
                    /\ session' = append_new_plan_version(session, decision_output)
                    /\ lastDecision' = Asked(MidSessionInput(session, Len(session.plan_versions),
                                                             branch = "replan"), decision_output)
               /\ calls' = LiveUpdate(Transition(Call(evaluated, "decision")))
    /\ pc' = "re_evaluated"
    /\ UNCHANGED <<session_memory, memory_results, step, lastPerception, completedWith>>
    /\ UNCHANGED outsideRun

NextReEvaluate == Next \/ ReEvaluate

SpecReEvaluate == Init /\ [][NextReEvaluate]_vars

\* C19: idempotence of evaluation.  Applying evaluate_step once more to a step
\* whose snapshot reports the original goal achieved, on the session that
\* snapshot has marked complete, changes neither the session state nor the
\* plan-version list.
EvaluationIdempotent ==
    [][ pc' = "re_evaluated"
          => /\ session'.state = session.state
             /\ session'.plan_versions = session.plan_versions ]_vars

EvaluatedTwice ==
    /\ pc = "re_evaluated"
    /\ calls.evaluate_step >= 2
    /\ calls.mark_complete = 2
    /\ session.state.original_goal_achieved

\* C21: set-once step outcome.  The executor is called once per executed CODE
\* step; a step changes only while it is the step run is executing, its
\* result, status and snapshot never change once written and its other
\* fields never change; the steps of earlier plan versions stay as they are.
SetOnceOutcome ==
    /\ [](calls.executor =
            Cardinality({ v \in 1..Len(session.plan_versions) :
                            StepAt(session, v).execution_result.kind = "executor" }))
    /\ [][ \A v \in 1..Len(session.plan_versions) :
             LET old == StepAt(session, v)
                 new == StepAt(session', v)
             IN /\ new # old => (v = step /\ v = Len(session.plan_versions))
                /\ old.execution_result # ExecUnset
                     => new.execution_result = old.execution_result
                /\ old.status # "pending" => new.status = old.status
                /\ old.perception # None => new.perception = old.perception
                /\ new.index = old.index
                /\ new.description = old.description
                /\ new.type = old.type
                /\ new.code = old.code
                /\ new.conclusion = old.conclusion ]_vars

ThreeStepsExecuted ==
    /\ pc = "returned"
    /\ calls.executor = 3
    /\ Len(session.plan_versions) = 3
    /\ \A v \in 1..3 : StepAt(session, v).perception # None

\* C22 as claimed: the index of every stored step is its 0-based position in
\* the step list of its plan version.
StepIndexPositionalAsClaimed ==
    \A v \in 1..Len(session.plan_versions) :
        \A i \in 1..Len(session.plan_versions[v].steps) :
            session.plan_versions[v].steps[i].index = i - 1

\* C22, amended: every plan version holds exactly one step, at position 0,
\* and the index of that step is the step_index of the decision answer it
\* was built from, whatever its value.
StepIndexFromDecision ==
    /\ \A v \in 1..Len(session.plan_versions) : Len(session.plan_versions[v].steps) = 1
    /\ (Len(session.plan_versions) >= 1 /\ Len(session.plan_versions) = calls.decision)
         => LatestStep.index = lastDecision.answer.step_index

IndexBeyondPosition ==
    /\ pc = "evaluate"
    /\ LatestStep.index = 1
    /\ lastDecision.answer.step_index = 1

\* C23: perception context of a step.  The memory of the perception call on a
\* step's result is the failure-memory window as built from the failed steps
\* before that step: their last three records at most, no memory-search
\* match, and not the record of the step itself, which enters the window
\* after the call.
PerceptionContextOfStep ==
    lastPerception.snapshot_type = "step_result"
        => LET k == calls.perception - 1
               before == FailedRecords(session, k - 1)
           IN /\ lastPerception.memory = LastN(before, Min(Len(before), 3))
              /\ (pc = "evaluate" /\ ~CurStep.perception[1].local_goal_achieved)
                   => /\ session_memory # <<>>
                      /\ session_memory[Len(session_memory)] = FailureMemory(CurStep)
                      /\ Len(FailedRecords(session, k)) = Len(before) + 1

PerceivedAfterOneFailure ==
    /\ pc = "evaluate"
    /\ lastPerception.snapshot_type = "step_result"
    /\ Len(lastPerception.memory) = 1
    /\ Len(session_memory) = 2

\* C24: decision context.  The completed_steps of a mid-session decision
\* request are the steps of all plan versions of that moment, in version
\* order: every one a CODE step that was executed and is completed, the
\* failed ones and the step just finished among them.
DecisionContext ==
    lastDecision.plan_mode = "mid_session"
        => LET n == lastDecision.current_plan_version
           IN /\ n >= 1
              /\ n <= Len(session.plan_versions)
              /\ lastDecision.current_step = n
              /\ Len(lastDecision.completed_steps) = n
              /\ \A v \in 1..n :
                   /\ lastDecision.completed_steps[v] = StepAt(session, v)
                   /\ StepAt(session, v).type = "CODE"
                   /\ StepAt(session, v).status = "completed"
                   /\ StepAt(session, v).execution_result.kind = "executor"

FailedStepInContext ==
    /\ pc = "execute"
    /\ lastDecision.plan_mode = "mid_session"
    /\ Len(lastDecision.completed_steps) = 2
    /\ ~lastDecision.completed_steps[1].perception[1].local_goal_achieved
    /\ lastDecision.completed_steps[2].perception[1].local_goal_achieved

\* C25 as claimed: the memory of the opening perception call is the sequence
\* memory search returned, each record once.
OpeningMemoryOnce ==
    [][ pc = "opening_perception" => lastPerception'.memory = memory_results ]_vars

\* C26: failure recording is decided by the local flag alone.  The window
\* changes only when perception has judged the result of a CODE step, and
\* then exactly when the snapshot's local flag is false, whatever its original
\* flag: the record of the step's description, "Tool failed" and the first
\* 300 characters of the rendered result is appended (and the oldest entry
\* dropped beyond three).  CONCLUDE and NOP steps leave the window alone.
FailureRecordingRule ==
    [][ IF pc = "perceive_result" /\ pc' # "raised"
        THEN LET s == StepAt(session', step)
                 rec == [ query |-> s.description,
                          result_requirement |-> "Tool failed",
                          solution_summary |-> Prefix(PyStr(s.execution_result), 300) ]
                 grown == Append(session_memory, rec)
             IN /\ s.type = "CODE"
                /\ IF ~s.perception[1].local_goal_achieved
                   THEN session_memory' = LastN(grown, Min(Len(grown), 3))
                   ELSE session_memory' = session_memory
        ELSE session_memory' = session_memory ]_vars

RecordedThoughGoalAchieved ==
    /\ pc = "evaluate"
    /\ CurStep.perception[1].original_goal_achieved
    /\ ~CurStep.perception[1].local_goal_achieved
    /\ Len(session_memory) = 2
    /\ session_memory[2] = FailureMemory(CurStep)

\* C27: missing executor result.  A CODE step whose executor response has no
\* result is completed all the same, perception has run on the text
\* 'Tool Failed', its snapshot is attached and evaluate_step is what follows.
MissingExecutorResult ==
    /\ (pc = "perceive_result" /\ ~CurStep.execution_result.has_result)
         => CurStep.status = "completed"
    /\ (pc = "evaluate" /\ ~CurStep.execution_result.has_result)
         => /\ CurStep.status = "completed"
            /\ CurStep.perception # None
            /\ lastPerception.snapshot_type = "step_result"
            /\ lastPerception.raw_input = <<"T", "o", "o", "l", " ", "F", "a", "i", "l", "e", "d">>

AdvancedWithoutResult ==
    /\ pc = "execute"
    /\ Len(session.plan_versions) = 2
    /\ ~StepAt(session, 1).execution_result.has_result
    /\ StepAt(session, 1).execution_result.kind = "executor"
    /\ ~lastDecision.step_failed

\* C28: unknown step type.  A step whose type is none of CODE, CONCLUDE and
\* NOP is never executed: run returns without an error, the step is still
\* pending with no result and no snapshot, no executor, perception or
\* live-update call is made for it and the session is not marked complete.
UnknownStepType ==
    (step # 0 /\ CurStep.type \notin {"CODE", "CONCLUDE", "NOP"})
        => /\ pc \in {"execute", "returned"}
           /\ CurStep.status = "pending"
           /\ CurStep.execution_result = ExecUnset
           /\ CurStep.perception = None
           /\ calls.executor = Len(session.plan_versions) - 1
           /\ calls.perception = Len(session.plan_versions)
           /\ calls.live_update = 2 * Len(session.plan_versions) - 1
           /\ calls.mark_complete = 0
           /\ ~session.state.original_goal_achieved

UnknownTypeReturned ==
    /\ pc = "returned"
    /\ step = 2
    /\ CurStep.type = "OTHER"
    /\ CurStep.status = "pending"

\* an answer of the decision component from which no plan version can be built
BadDecision(answer) ==
    \/ answer.absent \in {"plan_text", "step_index", "description", "type"}
    \/ answer.type = "CODE" /\ answer.absent = "code"

\* C29: atomic plan-version append on a bad decision.  When the answer of a
\* decision call lacks plan_text, step_index, description or type, or the
\* code of a CODE step, run fails and the session, its plan-version list
\* included, is what it was before the call; no live update is sent.
BadDecisionLeavesVersions ==
    [][ (calls'.decision # calls.decision /\ BadDecision(lastDecision'.answer))
          => /\ pc' = "raised"
             /\ session' = session
             /\ calls'.live_update = calls.live_update ]_vars

MidSessionDecisionRaised ==
    /\ pc = "raised"
    /\ lastDecision.plan_mode = "mid_session"
    /\ lastDecision.answer.absent = "code"
    /\ Len(session.plan_versions) = 1
    /\ calls.decision = 2

----------------------------------------------------------------------------
(* The iteration loop of "Session 6/main.py" (main), with                  *)
(* Decision.get_decision of "Session 6/decision.py" and Action.act of      *)
(* "Session 6/action.py".                                                  *)
(*                                                                         *)
(* A response text is a sequence of lines.  A line is the sequence of its  *)
(* leading marker and of the "|"-separated fields that follow the marker   *)
(* (str.split yields at least one field, possibly the empty string).       *)
(* current_query and prompt only feed the generation call; the answer of   *)
(* that call is drawn from ResponseTexts whatever the prompt.              *)

FunctionCallMarker == "FUNCTION_CALL:"
FinalAnswerMarker == "FINAL_ANSWER:"

ResponseTexts ==
    { << <<FunctionCallMarker, "add", "1", "2">> >>,
      << <<"reasoning", "">>, <<FunctionCallMarker, "open_paint">> >>,
      << <<FunctionCallMarker, "add", "1">> >>,
      << <<FunctionCallMarker, "fly">> >>,
      << <<FunctionCallMarker, "">> >>,
      << <<FinalAnswerMarker, "3">> >>,
      << <<FinalAnswerMarker, "3">>, <<FunctionCallMarker, "add", "1", "2">> >> }

\* four of the tools of Action.func_map: the parameter names of each
\* and whether it is a coroutine function
func_map ==
    [add |-> [parameters |-> <<"a", "b">>, coroutine |-> FALSE],
     sqrt |-> [parameters |-> <<"a">>, coroutine |-> FALSE],
     open_paint |-> [parameters |-> <<>>, coroutine |-> TRUE],
     send_email |-> [parameters |-> <<"text">>, coroutine |-> TRUE]]

\* the names in a sequence
Range(seq) == {seq[i] : i \in 1..Len(seq)}

\* line 106-107: self.func_map.get(func_name) finds a tool
ToolKnown(name) == name \in DOMAIN func_map

ParamsAccepted_ListsChecked(name, params) ==
    params.is_dict \/ Len(params.items) = Len(func_map[name].parameters)
\* lines 116-129: every key of a dict is a parameter of the tool; a list
\* has as many items as the tool has parameters
ParamsAccepted(name, params) ==
    IF params.is_dict
    THEN Range(params.names) \subseteq Range(func_map[name].parameters)
    ELSE Len(params.items) = Len(func_map[name].parameters)

\* lines 116-143: the names that arguments binds
BoundNames(name, params) ==
    IF params.is_dict
    THEN params.names
    ELSE func_map[name].parameters

\* what the synchronous tool returns
ToolResults == {"3"}

\* line.startswith("FUNCTION_CALL:")
IsFunctionCall(line) == Head(line) = FunctionCallMarker

\* "if func_name": None and the empty string are false
Truthy(name) == name # None /\ name[1] # ""

DecisionRaised == [raised |-> TRUE, func_name |-> None, params |-> <<>>]

(* Decision.get_decision.  The local response_text is assigned in the loop *)
(* of lines 18-22 only when a line starts with FUNCTION_CALL:; without     *)
(* such a line the test of line 23 reads an unassigned local and raises.   *)
get_decision(text) ==
    LET found == SelectSeq(text, IsFunctionCall)
    IN IF found = <<>>
       THEN DecisionRaised
       ELSE LET line == found[1]
                parts == Tail(line)
            IN IF Head(line) = FunctionCallMarker
               THEN [raised |-> FALSE, func_name |-> Some(Head(parts)),
                     params |-> Tail(parts)]
               ELSE IF Head(line) = FinalAnswerMarker
               THEN [raised |-> FALSE, func_name |-> None, params |-> <<>>]
               ELSE DecisionRaised

ActRejected == [raised |-> TRUE, ran |-> FALSE, result |-> None]
ToolRaised == [raised |-> TRUE, ran |-> TRUE, result |-> None]
Returned(result) == [raised |-> FALSE, ran |-> TRUE, result |-> result]

(* Action.act: the outcomes of one call.  A coroutine tool is awaited at   *)
(* line 162 and its value is assigned, but the return of line 172 belongs  *)
(* to the other branch: act then ends without a return statement.          *)
ActOutcomes(name, params) ==
    IF ~ToolKnown(name)
    THEN {ActRejected}
    ELSE IF ~ParamsAccepted(name, ListParams(params))
    THEN {ActRejected}
    ELSE IF func_map[name].coroutine
    THEN {ToolRaised, Returned(None)}
    ELSE {ToolRaised} \cup {Returned(Some(r)) : r \in ToolResults}

\* str(result)
ResultStr(result) == IF result = None THEN "None" ELSE result[1]

\* the entries of iteration_response
Called(n, name, result_str) ==
    [kind |-> "called", iteration |-> n, func_name |-> name, result |-> result_str]
FinalAnswerReceived(n) ==
    [kind |-> "final_answer", iteration |-> n, func_name |-> "", result |-> ""]
ErrorIn(n) ==
    [kind |-> "error", iteration |-> n, func_name |-> "", result |-> ""]

Tallied(field) == [tally EXCEPT ![field] = @ + 1]
Ended(t, how) == [t EXCEPT !.ended = how]

\* reset_state
reset_state ==
    /\ last_response' = None
    /\ iteration' = 0
    /\ iteration_response' = <<>>

LoopCondition_Inclusive == iteration <= max_iterations
\* line 185: while iteration < max_iterations
LoopCondition == iteration < max_iterations

\* lines 252-256 and 261-265: record the error and break
BreakOnError ==
    /\ iteration_response' = Append(iteration_response, ErrorIn(iteration + 1))
    /\ main_pc' = "finally"
    /\ UNCHANGED <<iteration, last_response>>

(* main, lines 85-184: reset_state, then the set-up (tools description,    *)
(* preferences, facts); an exception of the set-up is caught at line 266   *)
StartMain ==
    /\ main_pc \in {"idle", "returned"}
    /\ reset_state
    /\ \E ok \in BOOLEAN :
         /\ main_pc' = IF ok THEN "loop" ELSE "finally"
         /\ tally' = Ended(NoTally, IF ok THEN "" ELSE "setup_error")
    /\ response_text' = <<>>
    /\ decided' = NoDecision
    /\ UNCHANGED outsideMain

(* line 185: the loop condition fails *)
LoopExit ==
    /\ main_pc = "loop"
    /\ ~LoopCondition
    /\ main_pc' = "finally"
    /\ tally' = Ended(tally, "limit")
    /\ UNCHANGED <<iteration, last_response, iteration_response, response_text, decided>>
    /\ UNCHANGED outsideMain

(* lines 186-201: generate_with_timeout answers *)
Generate ==
    /\ main_pc = "loop"
    /\ LoopCondition
    /\ \E text \in ResponseTexts : response_text' = text
    /\ main_pc' = "generated"
    /\ tally' = Tallied("generations")
    /\ UNCHANGED <<iteration, last_response, iteration_response, decided>>
    /\ UNCHANGED outsideMain

(* lines 186-200 and 261-265: generate_with_timeout raises (a timeout, an  *)
(* error of the client) or the response has no text                        *)
GenerateFails ==
    /\ main_pc = "loop"
    /\ LoopCondition
    /\ BreakOnError
    /\ tally' = Ended(Tallied("generations"), "error")
    /\ UNCHANGED <<response_text, decided>>
    /\ UNCHANGED outsideMain

(* lines 203-204, and 261-265 when get_decision raises *)
GetDecision ==
    /\ main_pc = "generated"
    /\ LET decision == get_decision(response_text)
       IN IF decision.raised
          THEN /\ BreakOnError
               /\ tally' = Ended(tally, "error")
               /\ UNCHANGED decided
          ELSE /\ decided' = decision
               /\ main_pc' = "decided"
               /\ UNCHANGED <<iteration, last_response, iteration_response, tally>>
    /\ UNCHANGED response_text
    /\ UNCHANGED outsideMain

(* lines 215-246 and 260: the tool call and, when act returns, the end of  *)
(* the iteration; lines 252-256 when act raises                            *)
ActOnDecision ==
    /\ main_pc = "decided"
    /\ Truthy(decided.func_name)
    /\ \E outcome \in ActOutcomes(decided.func_name[1], decided.params) :
         LET counted == [tally EXCEPT !.acts = @ + 1,
                                      !.tool_runs = @ + (IF outcome.ran THEN 1 ELSE 0)]
         IN IF outcome.raised
            THEN /\ BreakOnError
                 /\ tally' = Ended(counted, "error")
            ELSE LET iteration_result == ResultStr(outcome.result)
                 IN /\ iteration_response' =
                          Append(iteration_response,
                                 Called(iteration + 1, decided.func_name[1], iteration_result))
                    /\ last_response' = Some(iteration_result)
                    /\ iteration' = iteration + 1
                    /\ main_pc' = "loop"
                    /\ tally' = [counted EXCEPT !.completed = @ + 1]
    /\ UNCHANGED <<response_text, decided>>
    /\ UNCHANGED outsideMain

(* lines 248-251: no function name *)
ReceiveFinalAnswer ==
    /\ main_pc = "decided"
    /\ ~Truthy(decided.func_name)
    /\ iteration_response' = Append(iteration_response, FinalAnswerReceived(iteration + 1))
    /\ main_pc' = "finally"
    /\ tally' = Ended(tally, "final_answer")
    /\ UNCHANGED <<iteration, last_response, response_text, decided>>
    /\ UNCHANGED outsideMain

(* lines 268-269: finally: reset_state() *)
Finish ==
    /\ main_pc = "finally"
    /\ reset_state
    /\ main_pc' = "returned"
    /\ UNCHANGED <<response_text, decided, tally>>
    /\ UNCHANGED outsideMain

NextMain ==
    \/ StartMain
    \/ LoopExit
    \/ Generate
    \/ GenerateFails
    \/ GetDecision
    \/ ActOnDecision
    \/ ReceiveFinalAnswer
    \/ Finish

SpecMain == Init /\ [][NextMain]_vars

InLoop == main_pc \in {"loop", "generated", "decided"}

Appended(kind) ==
    /\ Len(iteration_response') = Len(iteration_response) + 1
    /\ iteration_response'[Len(iteration_response')].kind = kind

(* C30: one call of main makes at most max_iterations generation calls and *)
(* at most max_iterations tool invocations.  Inside the loop the counter   *)
(* equals the number of completed iterations, each recorded by one entry.  *)
(* The counter increases only by one, in the step in which act has run the *)
(* tool and returned.  The loop ends exactly in a step that records an     *)
(* error, in the step that finds no function name, or at the loop          *)
(* condition with max_iterations completed iterations; every such step     *)
(* ends it.                                                                *)
IterationLoopBounded ==
    /\ [](/\ tally.generations <= max_iterations
          /\ tally.acts <= max_iterations
          /\ tally.tool_runs <= max_iterations
          /\ tally.completed <= max_iterations
          /\ tally.generations \in {tally.completed, tally.completed + 1}
          /\ InLoop => /\ iteration = tally.completed
                       /\ Len(iteration_response) = iteration
                       /\ \A i \in 1..iteration : iteration_response[i].kind = "called"
          /\ tally.ended = "limit" => tally.completed = max_iterations)
    /\ [][/\ iteration' > iteration =>
               /\ iteration' = iteration + 1
               /\ main_pc = "decided" /\ main_pc' = "loop"
               /\ tally'.tool_runs = tally.tool_runs + 1
               /\ Appended("called")
          /\ (InLoop /\ main_pc' = "finally") =>
               \/ /\ main_pc = "loop" /\ iteration = max_iterations
                  /\ iteration_response' = iteration_response
               \/ Appended("error")
               \/ /\ main_pc = "decided" /\ ~Truthy(decided.func_name)
                  /\ Appended("final_answer")
          /\ (main_pc = "loop" /\ iteration = max_iterations) => main_pc' = "finally"
          /\ (main_pc = "decided" /\ ~Truthy(decided.func_name)) => main_pc' = "finally"
          /\ (InLoop /\ (Appended("error") \/ Appended("final_answer"))) =>
               main_pc' = "finally"
          /\ (InLoop /\ main_pc' = "loop") => iteration' = iteration + 1]_vars

\* main has returned after max_iterations completed iterations
TenIterationsCompleted ==
    /\ main_pc = "returned"
    /\ tally.ended = "limit"
    /\ tally.completed = max_iterations
    /\ tally.generations = max_iterations
    /\ tally.tool_runs = max_iterations

\* the text holds a FINAL_ANSWER line and no FUNCTION_CALL line
IsFinalAnswerOnly(text) ==
    /\ \E i \in 1..Len(text) : Head(text[i]) = FinalAnswerMarker
    /\ \A i \in 1..Len(text) : ~IsFunctionCall(text[i])

(* C31: when the loop of main has ended after a response that holds a     *)
(* FINAL_ANSWER line and no FUNCTION_CALL line, get_decision has returned  *)
(* (None, None) and the loop has ended through its FINAL_ANSWER branch,    *)
(* not through an error branch.                                            *)
FinalAnswerEndsThroughItsBranch ==
    (main_pc \in {"finally", "returned"} /\ IsFinalAnswerOnly(response_text)) =>
        /\ tally.ended = "final_answer"
        /\ decided.func_name = None

----------------------------------------------------------------------------
(* Action.act of "Session 6/action.py", called on its own with any         *)
(* func_name and any params (a list or a dict)                             *)

ActNames == DOMAIN func_map \cup {"fly"}
ParamValues == {"1", "2"}

\* the lists of up to three items, and dicts by their keys
ActParams ==
    {ListParams(<<>>)}
    \cup {ListParams(<<x>>) : x \in ParamValues}
    \cup {ListParams(<<x, y>>) : x \in ParamValues, y \in ParamValues}
    \cup {ListParams(<<"1", "2", x>>) : x \in ParamValues}
    \cup {DictParams(<<"a", "b">>, <<"1", "2">>),
          DictParams(<<"a", "c">>, <<"1", "2">>),
          DictParams(<<"a">>, <<"1">>),
          DictParams(<<"text">>, <<"1">>),
          DictParams(<<"body">>, <<"1">>)}

\* what the tool returns when it runs to its end: a coroutine tool returns
\* a dict with a content list
ToolValue(name) ==
    IF func_map[name].coroutine THEN "content" ELSE CHOOSE r \in ToolResults : TRUE

(* act is called *)
ActCall ==
    /\ act_pc \in {"idle", "done"}
    /\ \E name \in ActNames, params \in ActParams :
         act_call' = [func_name |-> name, params |-> params]
    /\ arguments' = <<>>
    /\ act_outcome' = NoOutcome
    /\ act_pc' = "lookup"
    /\ UNCHANGED outsideAct

(* lines 106-109: the tool is looked up; ValueError for an unknown name    *)
ActLookup ==
    /\ act_pc = "lookup"
    /\ IF ToolKnown(act_call.func_name)
       THEN /\ act_pc' = "bind"
            /\ UNCHANGED act_outcome
       ELSE /\ act_pc' = "done"
            /\ act_outcome' = [act_outcome EXCEPT !.raised = "ValueError"]
    /\ UNCHANGED <<act_call, arguments>>
    /\ UNCHANGED outsideAct

(* lines 112-143: the parameters are bound to names; ValueError for a key  *)
(* that is no parameter and for a list of another length                   *)
ActBind ==
    /\ act_pc = "bind"
    /\ IF ParamsAccepted(act_call.func_name, act_call.params)
       THEN /\ arguments' = BoundNames(act_call.func_name, act_call.params)
            /\ act_pc' = "call"
            /\ UNCHANGED act_outcome
       ELSE /\ act_pc' = "done"
            /\ act_outcome' = [act_outcome EXCEPT !.raised = "ValueError"]
            /\ UNCHANGED arguments
    /\ UNCHANGED act_call
    /\ UNCHANGED outsideAct

(* lines 160-175: the tool is called with the bound arguments.  The call  *)
(* raises TypeError when a parameter has no argument; a tool that runs     *)
(* raises or produces                                                      *)
(* its value                                                               *)
ActRunTool ==
    /\ act_pc = "call"
    /\ IF Range(arguments) # Range(func_map[act_call.func_name].parameters)
       THEN /\ act_pc' = "done"
            /\ act_outcome' = [act_outcome EXCEPT !.raised = "TypeError"]
       ELSE \E fails \in BOOLEAN :
              IF fails
              THEN /\ act_pc' = "done"
                   /\ act_outcome' = [act_outcome EXCEPT !.raised = "ToolError",
                                                         !.ran = TRUE]
              ELSE /\ act_pc' = "ran"
                   /\ act_outcome' = [act_outcome EXCEPT
                                        !.ran = TRUE,
                                        !.value = Some(ToolValue(act_call.func_name))]
    /\ UNCHANGED <<act_call, arguments>>
    /\ UNCHANGED outsideAct

(* lines 161-172: a synchronous tool's value is returned at line 172; the  *)
(* value of a coroutine tool is assigned at line 162 and act ends without  *)
(* a return statement                                                      *)
ActReturn ==
    /\ act_pc = "ran"
    /\ act_outcome' = [act_outcome EXCEPT !.returned =
            IF func_map[act_call.func_name].coroutine THEN None ELSE act_outcome.value]
    /\ act_pc' = "done"
    /\ UNCHANGED <<act_call, arguments>>
    /\ UNCHANGED outsideAct

NextAct ==
    \/ ActCall
    \/ ActLookup
    \/ ActBind
    \/ ActRunTool
    \/ ActReturn

SpecAct == Init /\ [][NextAct]_vars

\* a registered tool is called with a list of the right length
RightCall ==
    /\ ToolKnown(act_call.func_name)
    /\ ~act_call.params.is_dict
    /\ Len(act_call.params.items) = Len(func_map[act_call.func_name].parameters)

(* C32: when act has ended for a registered tool and a parameter list of   *)
(* the right length, and the tool has produced a value, act has returned   *)
(* that value, for synchronous and for coroutine tools.                    *)
ActReturnsToolValue ==
    (act_pc = "done" /\ RightCall /\ act_outcome.value # None) =>
        act_outcome.returned = act_outcome.value

\* the three bad calls: a name not in func_map, a dict with a key that is
\* no parameter of the tool, a list of another length
BadCall ==
    \/ act_call.func_name \notin DOMAIN func_map
    \/ /\ act_call.params.is_dict
       /\ \E i \in 1..Len(act_call.params.names) :
            \A j \in 1..Len(func_map[act_call.func_name].parameters) :
               act_call.params.names[i] # func_map[act_call.func_name].parameters[j]
    \/ /\ ~act_call.params.is_dict
       /\ Len(act_call.params.items) # Len(func_map[act_call.func_name].parameters)

(* C33: a bad call never runs the tool, at any point of act, and act ends  *)
(* it by raising ValueError.                                               *)
BadCallsRejected ==
    (act_pc # "idle" /\ BadCall) =>
        /\ ~act_outcome.ran
        /\ act_pc \in {"lookup", "bind", "done"}
        /\ act_pc = "done" => act_outcome.raised = "ValueError"

\* act has ended a call whose dict has a key that is no parameter
ForeignKeyRejected ==
    /\ act_pc = "done"
    /\ act_call.func_name = "add"
    /\ act_call.params = DictParams(<<"a", "c">>, <<"1", "2">>)
    /\ act_outcome.raised = "ValueError"

----------------------------------------------------------------------------
(* MemoryStore of "Session 7/agentic_web_memory_extension/memory.py".      *)
(* The file is None while a writer has opened it with mode "w" and has not *)
(* written yet.  A request thread runs one call of the store at a time;    *)
(* the endpoints of main.py are plain functions, which the server runs in  *)
(* worker threads, so two calls can be in progress together.               *)

\* calls the first request thread makes
MaxStoreCalls == 3
\* calls the second request thread makes, in parallel with the first
MaxParallelCalls == 1

CallLimit(r) == IF r = 1 THEN MaxStoreCalls ELSE MaxParallelCalls

Summaries == {"s1", "s2"}
PreferenceValues == {"dark", "light"}

WithoutUrl_Keep(pages, url) == pages
\* line 36: pages = [p for p in pages if p.get("url") != url]
WithoutUrl(pages, url) ==
    LET Other(p) == p.url # url IN SelectSeq(pages, Other)

\* the entries of a URL in a pages list
EntriesOf(pages, url) ==
    LET Same(p) == p.url = url IN SelectSeq(pages, Same)

\* add_page, lines 35-38, on the loaded data
add_page(data, url, summary) ==
    [data EXCEPT !.pages = Append(WithoutUrl(data.pages, url),
                                  [url |-> url, summary |-> summary])]

\* get_page_summary, lines 43-46, on the loaded data
get_page_summary(data, url) ==
    LET found == EntriesOf(data.pages, url)
    IN IF found = <<>> THEN None ELSE Some(found[1].summary)

\* upsert_preference, line 26, on the loaded data
upsert_preference(data, key, value) ==
    [data EXCEPT !.preferences[key] = Some(value)]

CanCall(r) ==
    /\ requests[r].pc \in {"idle", "returned", "raised"}
    /\ requests[r].calls < CallLimit(r)

Called_(r, op, key, value) ==
    [requests EXCEPT ![r] =
        [pc |-> "load", op |-> op, key |-> key, value |-> value,
         data |-> NewMemory,
         before |-> IF memory_file = None THEN NewMemory ELSE memory_file[1],
         result |-> None, calls |-> @.calls + 1]]

(* Actions.store_page, line 23: self.memory.add_page(url, summary) *)
StorePage(r) ==
    /\ CanCall(r)
    /\ \E url \in Urls, summary \in Summaries :
         requests' = Called_(r, "add_page", url, summary)
    /\ UNCHANGED <<memory_file, page_log>>
    /\ UNCHANGED outsideMemory

(* a call of get_page_summary(url) *)
GetPageSummary(r) ==
    /\ CanCall(r)
    /\ \E url \in Urls : requests' = Called_(r, "get_page_summary", url, "")
    /\ UNCHANGED <<memory_file, page_log>>
    /\ UNCHANGED outsideMemory

(* a call of upsert_preference(key, value) *)
UpsertPreference(r) ==
    /\ CanCall(r)
    /\ \E key \in PreferenceKeys, value \in PreferenceValues :
         requests' = Called_(r, "upsert_preference", key, value)
    /\ UNCHANGED <<memory_file, page_log>>
    /\ UNCHANGED outsideMemory

(* _load, lines 16-18, as the first statement of the three methods;        *)
(* json.load raises on a file that a writer has emptied.                   *)
(* get_page_summary returns from what it has loaded.                       *)
Load(r) ==
    /\ requests[r].pc = "load"
    /\ LET req == requests[r]
       IN requests' = [requests EXCEPT ![r] =
            IF memory_file = None
            THEN [req EXCEPT !.pc = "raised"]
            ELSE IF req.op = "get_page_summary"
            THEN [req EXCEPT !.pc = "returned", !.data = memory_file[1],
                             !.result = get_page_summary(memory_file[1], req.key)]
            ELSE [req EXCEPT !.pc = "save", !.data = memory_file[1]]]
    /\ UNCHANGED <<memory_file, page_log>>
    /\ UNCHANGED outsideMemory

(* lines 26 and 35-38, then _save, line 21: open(path, "w") empties the    *)
(* file                                                                    *)
OpenForWrite(r) ==
    /\ requests[r].pc = "save"
    /\ LET req == requests[r]
       IN requests' = [requests EXCEPT ![r] =
            [req EXCEPT !.pc = "write",
                        !.data = IF req.op = "add_page"
                                 THEN add_page(req.data, req.key, req.value)
                                 ELSE upsert_preference(req.data, req.key, req.value)]]
    /\ memory_file' = None
    /\ UNCHANGED page_log
    /\ UNCHANGED outsideMemory

(* _save, line 22: json.dump writes the data; the method returns           *)
Write(r) ==
    /\ requests[r].pc = "write"
    /\ memory_file' = Some(requests[r].data)
    /\ requests' = [requests EXCEPT ![r].pc = "returned"]
    /\ page_log' = IF requests[r].op = "add_page"
                   THEN [page_log EXCEPT ![requests[r].key] = Some(requests[r].value)]
                   ELSE page_log
    /\ UNCHANGED outsideMemory

\* one caller: each call returns before the next begins
NextMemoryOneCaller ==
    \/ StorePage(1)
    \/ GetPageSummary(1)
    \/ UpsertPreference(1)
    \/ Load(1)
    \/ OpenForWrite(1)
    \/ Write(1)

SpecMemoryOneCaller == Init /\ [][NextMemoryOneCaller]_vars

\* store_page requests in parallel
NextMemory ==
    \E r \in Requests :
        \/ StorePage(r)
        \/ Load(r)
        \/ OpenForWrite(r)
        \/ Write(r)

SpecMemory == Init /\ [][NextMemory]_vars

Resting(r) == requests[r].pc \in {"idle", "returned", "raised"}

(* C34: with calls made one after another, the pages list never holds two  *)
(* entries of one URL; between calls get_page_summary of every URL is the  *)
(* summary of the latest add_page of that URL (None if there was none);    *)
(* when add_page has returned, the entries of every other URL and the      *)
(* preferences are those of before the call.                               *)
PageUniqueness ==
    /\ memory_file # None =>
         \A i, j \in 1..Len(memory_file[1].pages) :
            memory_file[1].pages[i].url = memory_file[1].pages[j].url => i = j
    /\ Resting(1) =>
         /\ memory_file # None
         /\ \A url \in Urls : get_page_summary(memory_file[1], url) = page_log[url]
    /\ (requests[1].pc = "returned" /\ requests[1].op = "get_page_summary") =>
         requests[1].result = page_log[requests[1].key]
    /\ (requests[1].pc = "returned" /\ requests[1].op = "add_page") =>
         /\ memory_file[1].preferences = requests[1].before.preferences
         /\ \A url \in Urls \ {requests[1].key} :
              EntriesOf(memory_file[1].pages, url) =
              EntriesOf(requests[1].before.pages, url)

\* a page has been added again, after a page of the other URL and a preference
PageReplaced ==
    /\ requests[1].pc = "returned"
    /\ requests[1].op = "add_page"
    /\ requests[1].calls = 3
    /\ EntriesOf(requests[1].before.pages, requests[1].key) # <<>>
    /\ requests[1].before.pages[1].summary # requests[1].value
    /\ requests[1].before.pages[1].url = requests[1].key

(* C35: when two add_page calls for different URLs have returned, both     *)
(* pages are in the store, however the calls were interleaved.             *)
NoLostUpdate ==
    (/\ \A r \in Requests : requests[r].pc = "returned" /\ requests[r].calls = 1
     /\ requests[1].key # requests[2].key) =>
        /\ memory_file # None
        /\ \A r \in Requests :
             get_page_summary(memory_file[1], requests[r].key) = Some(requests[r].value)

----------------------------------------------------------------------------
(* EmbeddingStore of                                                       *)
(* "Session 7/agentic_web_memory_extension/utils/embedding_store.py".      *)
(* The index is None or a FAISS index: its dimension d and the ids of the  *)
(* vectors it holds.  metadata is a dict from ids to metadata.  add is     *)
(* called as Actions.store_page calls it: one metadata per vector, with    *)
(* the URL of the page and the chunk the vector was made from.             *)

\* add calls on one store
MaxAdds == 3
\* vectors of one add call
MaxChunks == 2
\* the vector dimensions
Dims == {2, 3}

\* action.py, line 20: metas = [{"url": url, "chunk": c} for c in chunks]
Metas(url, call, n) == [j \in 1..n |-> [url |-> url, chunk |-> <<call, j>>]]

\* the ids of the vectors in the index
IndexIds == IF index = None THEN {} ELSE Range(index[1].ids)

\* lines 61-65: the index is dropped when the dimension differs
DimensionChanged(dim) == index # None /\ index[1].d # dim

\* line 68: start_id = len(self.metadata)
StartId == Cardinality(DOMAIN metadata)

NewIds_FromZero(start_id, n) == [j \in 1..n |-> j - 1]
\* line 69: ids = list(range(start_id, start_id + arr.shape[0]))
NewIds(start_id, n) == [j \in 1..n |-> start_id + j - 1]

(* add, lines 57-75: the index is created when there is none, the vectors  *)
(* are added under the new ids, each id gets its metadata, and _save       *)
(* writes both files                                                       *)
add(kept, dim, n, metadatas) ==
    LET ensured == IF kept = None THEN [d |-> dim, ids |-> <<>>] ELSE kept[1]
        start_id == StartId
        ids == NewIds(start_id, n)
        written == [i \in DOMAIN metadata \cup Range(ids) |->
                       IF i \in Range(ids)
                       THEN metadatas[CHOOSE j \in 1..n : ids[j] = i]
                       ELSE metadata[i]]
    IN /\ index' = Some([ensured EXCEPT !.ids = @ \o ids])
       /\ metadata' = written
       /\ index_file' = index'
       /\ meta_file' = written
       /\ added' = Append(added, [before |-> start_id, ids |-> ids, metas |-> metadatas])

(* add with vectors of the dimension of the index, or with no index yet *)
AddVectors ==
    /\ Len(added) < MaxAdds
    /\ \E dim \in Dims, n \in 1..MaxChunks, url \in Urls :
         /\ ~DimensionChanged(dim)
         /\ add(index, dim, n, Metas(url, Len(added) + 1, n))
    /\ UNCHANGED outsideStore

(* add with vectors of another dimension: lines 61-65 drop the index and   *)
(* remove its file before the index is created anew                        *)
AddOtherDimension ==
    /\ Len(added) < MaxAdds
    /\ \E dim \in Dims, n \in 1..MaxChunks, url \in Urls :
         /\ DimensionChanged(dim)
         /\ add(None, dim, n, Metas(url, Len(added) + 1, n))
    /\ UNCHANGED outsideStore

NextStore ==
    \/ AddVectors
    \/ AddOtherDimension

SpecStore == Init /\ [][NextStore]_vars

(* C36: after every add call the ids of the vectors in the index are the   *)
(* keys of metadata.                                                       *)
IndexMatchesMetadata == IndexIds = DOMAIN metadata

(* C37: the id lists that the add calls have returned are pairwise         *)
(* disjoint, each is a contiguous range that starts at the number of       *)
(* metadata entries held before its call, and every id still maps to the   *)
(* metadata it was added with.                                             *)
IdsNeverReused ==
    /\ \A k \in 1..Len(added) :
         /\ \A j \in 1..Len(added[k].ids) : added[k].ids[j] = added[k].before + j - 1
         /\ \A j \in 1..Len(added[k].ids) :
              /\ added[k].ids[j] \in DOMAIN metadata
              /\ metadata[added[k].ids[j]] = added[k].metas[j]
    /\ \A k, l \in 1..Len(added) :
         k # l => Range(added[k].ids) \cap Range(added[l].ids) = {}
    /\ meta_file = metadata

\* three add calls, the index recreated by one of them
AddedAcrossDimensionChange ==
    /\ Len(added) = 3
    /\ Len(added[1].ids) = 2
    /\ index # None
    /\ Cardinality(IndexIds) < Cardinality(DOMAIN metadata)

----------------------------------------------------------------------------
(* HeuristicEngine.handle_timeout of "Session9/heuristics.py", and a       *)
(* caller that retries its tool as long as handle_timeout answers "retry", *)
(* passing the attempt number, counted up from the first one.              *)
(* Times are in tenths of a second.                                        *)

\* the largest max_retry_attempts a config is made with
MaxRetryConfig == 4
\* the largest attempt number a caller starts with
MaxFirstAttempt == 4

\* HeuristicConfig(max_retry_attempts = ...), and HeuristicConfig() of
\* line 67 with the default of line 30
Configs ==
    {[max_retry_attempts |-> n] : n \in 0..MaxRetryConfig}
    \cup {[max_retry_attempts |-> DefaultMaxRetryAttempts]}

\* random.random(), line 157: a value in [0, 1)
Fractions == {0, 5, 9}

AttemptsExhausted_Late(cfg, n) == n > cfg.max_retry_attempts
\* line 155: attempt >= self.config.max_retry_attempts
AttemptsExhausted(cfg, n) == n >= cfg.max_retry_attempts

\* line 157: wait_time = 2 ** attempt + random.random()
WaitTime(n, fraction) == 10 * (2 ^ n) + fraction

\* handle_timeout, lines 155-160: the HeuristicResult
handle_timeout(cfg, n) ==
    IF AttemptsExhausted(cfg, n)
    THEN [passed |-> FALSE, severity |-> "critical", next_action |-> "abort"]
    ELSE [passed |-> TRUE, severity |-> "info", next_action |-> "retry"]

(* HeuristicEngine(config), lines 66-67; the tool of the caller times out  *)
NewEngine ==
    /\ retry_pc = "idle"
    /\ \E cfg \in Configs, first \in 0..MaxFirstAttempt :
         /\ config' = cfg
         /\ attempt' = first
    /\ retry_pc' = "timed_out"
    /\ UNCHANGED <<timeout_result, retried>>
    /\ UNCHANGED outsideRetry

(* handle_timeout(attempt): it sleeps wait_time before it answers "retry"  *)
HandleTimeout ==
    /\ retry_pc = "timed_out"
    /\ timeout_result' = handle_timeout(config, attempt)
    /\ \E fraction \in Fractions :
         retried' = [retried EXCEPT !.slept =
                        IF AttemptsExhausted(config, attempt)
                        THEN @
                        ELSE @ + WaitTime(attempt, fraction)]
    /\ retry_pc' = "handled"
    /\ UNCHANGED <<config, attempt>>
    /\ UNCHANGED outsideRetry

(* the caller retries and the tool times out again *)
RetryTimesOut ==
    /\ retry_pc = "handled"
    /\ timeout_result.next_action = "retry"
    /\ retried' = [retried EXCEPT !.retries = @ + 1]
    /\ attempt' = attempt + 1
    /\ retry_pc' = "timed_out"
    /\ UNCHANGED <<config, timeout_result>>
    /\ UNCHANGED outsideRetry

(* the caller retries and the tool answers *)
RetrySucceeds ==
    /\ retry_pc = "handled"
    /\ timeout_result.next_action = "retry"
    /\ retried' = [retried EXCEPT !.retries = @ + 1]
    /\ retry_pc' = "done"
    /\ UNCHANGED <<config, attempt, timeout_result>>
    /\ UNCHANGED outsideRetry

(* the caller gives up on "abort" *)
GiveUp ==
    /\ retry_pc = "handled"
    /\ timeout_result.next_action = "abort"
    /\ retry_pc' = "aborted"
    /\ UNCHANGED <<config, attempt, timeout_result, retried>>
    /\ UNCHANGED outsideRetry

NextRetry ==
    \/ NewEngine
    \/ HandleTimeout
    \/ RetryTimesOut
    \/ RetrySucceeds
    \/ GiveUp

SpecRetry == Init /\ [][NextRetry]_vars

(* C38: handle_timeout answers "retry" with passed = true exactly for the  *)
(* attempts below max_retry_attempts, and "abort" with passed = false and  *)
(* severity critical for every other attempt; a caller driven by it makes  *)
(* at most max_retry_attempts retries.                                     *)
BoundedRetry ==
    /\ retry_pc \in {"handled", "done", "aborted"} =>
         /\ attempt < config.max_retry_attempts =>
              /\ timeout_result.next_action = "retry"
              /\ timeout_result.passed
         /\ attempt >= config.max_retry_attempts =>
              /\ timeout_result.next_action = "abort"
              /\ ~timeout_result.passed
              /\ timeout_result.severity = "critical"
    /\ retried.retries <= config.max_retry_attempts
    /\ retry_pc = "done" => timeout_result.next_action = "retry"
    /\ retry_pc = "aborted" => timeout_result.next_action = "abort"

\* with the default config the caller has retried three times from attempt 0
\* and has been told to abort
DefaultRetriesUsedUp ==
    /\ retry_pc = "aborted"
    /\ config.max_retry_attempts = DefaultMaxRetryAttempts
    /\ retried.retries = DefaultMaxRetryAttempts
    /\ attempt = DefaultMaxRetryAttempts

====
